---- MODULE Spec2Model ----
(***************************************************************************)
(* A model of statediff: the type-path resolver, the prototype/decoder     *)
(* registries, the structure decoders behind Transform, and the streaming  *)
(* marshaler of codec/fcjson.                                              *)
(*                                                                         *)
(* Type paths are sequences of character tokens: the characters the two    *)
(* regular expressions of ResolveType look at ("/", ".", "[", "]" and the  *)
(* decimal digits) are single tokens, and a maximal run of other           *)
(* characters (an identifier such as storageMinerActor) is one token.      *)
(* Strings and byte strings held by nodes and tokens are sequences of      *)
(* byte values, as Go strings are.                                         *)
(***************************************************************************)
EXTENDS Integers, Sequences, FiniteSets, TLC

VARIABLES
    rpath,   \* resolver: the type-path string handed to ResolveType
    rkey,    \* resolver: ResolveType(rpath)
    rkey2,   \* resolver: ResolveType(rkey)
    rpc,     \* resolver: "start", "once" (resolved), "twice" (re-resolved)
    mnode,   \* marshaler: the node handed to the marshal call
    mloader, \* marshaler: the Loader of the DagMarshaler ("nil": none)
    mpath,   \* marshaler: the Path of the DagMarshaler
    mfailAt, \* marshaler: the Step call the sink rejects (0: none)
    mvia,    \* marshaler: the entry point used, "" before the call
    mres,    \* marshaler: the sink state and error the call left
    tas,     \* transform: the type-path string handed to Transform
    tblock,  \* transform: what the block store holds under the CID
    tres,    \* transform: the node, error and panic Transform returned
    tload,   \* transform: what the call of Load inside Transform left
    tpc,     \* transform: "start", "done" (returned), "marshaled"
    ctab,    \* concurrent calls: the three package-level tables
    ccall,   \* concurrent calls: each call's arguments, position and result
    bheap,   \* Bytes builder: the _Bytes values allocated, by address
    bw,      \* Bytes builder: the address nb.w points to
    bm,      \* Bytes builder: *nb.m
    bout,    \* Bytes builder: the nodes Build returned, with their content then
    blast,   \* Bytes builder: the outcome of the last operation
    bops,    \* Bytes builder: the operations so far, each with its outcome
    knode,   \* call stack: the node handed to MarshalRecursive
    kd,      \* call stack: the DagMarshaler values, by address
    kloader, \* call stack: the Loader of the DagMarshaler
    kstack,  \* call stack: what is left to do, innermost first
    kres,    \* call stack: the sink state and error so far
    ksteps,  \* call stack: the number of frames that have run
    kpc      \* call stack: "run", "done" (the call has returned)

rvars == <<rpath, rkey, rkey2, rpc>>

mvars == <<mnode, mloader, mpath, mfailAt, mvia, mres>>

tvars == <<tas, tblock, tres, tload, tpc>>

cvars == <<ctab, ccall>>

bvars == <<bheap, bw, bm, bout, blast, bops>>

kvars == <<knode, kloader, kd, kstack, kres, ksteps, kpc>>

vars == <<rvars, mvars, tvars, cvars, bvars, kvars>>

(***************************************************************************)
(* Bounds                                                                  *)
(***************************************************************************)
MaxPathLen == 4
MaxKids == 2
MaxSinkFail == 6
MaxEntries == 2
MaxElems == 3

(***************************************************************************)
(* Type-path resolver                                                      *)
(***************************************************************************)
Digits == {"0", "1", "2", "3", "4", "5", "6", "7", "8", "9"}

\* The LotusType enum: each type key as its token sequence.
LotusTypeTipset == <<"tipset">>
LotusTypeStateroot == <<"stateRoot">>
AccountActorState == <<"accountActor">>
CronActorState == <<"cronActor">>
InitActorState == <<"initActor">>
InitActorAddresses == <<"initActorAddresses">>
MarketActorState == <<"storageMarketActor">>
MarketActorProposals == <<"storageMarketActor", ".", "Proposals">>
MarketActorStates == <<"storageMarketActor", ".", "States">>
MarketActorPendingProposals == <<"storageMarketActor", ".", "PendingProposals">>
MarketActorEscrowTable == <<"storageMarketActor", ".", "EscrowTable">>
MarketActorLockedTable == <<"storageMarketActor", ".", "LockedTable">>
MarketActorDealOpsByEpoch == <<"storageMarketActor", ".", "DealOpsByEpoch">>
MultisigActorState == <<"multisigActor">>
MultisigActorPending == <<"multisigActor", ".", "PendingTxns">>
StorageMinerActorState == <<"storageMinerActor">>
StorageMinerActorInfo == <<"storageMinerActor", ".", "Info">>
StorageMinerActorVestingFunds == <<"storageMinerActor", ".", "VestingFunds">>
StorageMinerActorPreCommittedSectors == <<"storageMinerActor", ".", "PreCommittedSectors">>
StorageMinerActorPreCommittedSectorsExpiry == <<"storageMinerActor", ".", "PreCommittedSectorsExpiry">>
StorageMinerActorAllocatedSectors == <<"storageMinerActor", ".", "AllocatedSectors">>
StorageMinerActorSectors == <<"storageMinerActor", ".", "Sectors">>
StorageMinerActorDeadlines == <<"storageMinerActor", ".", "Deadlines">>
StorageMinerActorDeadline == <<"storageMinerActor", ".", "Deadlines", ".", "Due">>
StorageMinerActorDeadlinePartitions == <<"storageMinerActor", ".", "Deadlines", ".", "Due", ".", "Partitions">>
StorageMinerActorDeadlinePartitionExpiry == <<"storageMinerActor", ".", "Deadlines", ".", "Due", ".", "Partitions", ".", "ExpirationsEpochs">>
StorageMinerActorDeadlinePartitionEarly == <<"storageMinerActor", ".", "Deadlines", ".", "Due", ".", "Partitions", ".", "EarlyTerminated">>
StorageMinerActorDeadlineExpiry == <<"storageMinerActor", ".", "Deadlines", ".", "Due", ".", "ExpirationsEpochs">>
StoragePowerActorState == <<"storagePowerActor">>
StoragePowerActorCronEventQueue == <<"storagePowerCronEventQueue">>
StoragePowerActorClaims == <<"storagePowerClaims">>
RewardActorState == <<"rewardActor">>
VerifiedRegistryActorState == <<"verifiedRegistryActor">>
VerifiedRegistryActorVerifiers == <<"verifiedRegistryActor", ".", "Verifiers">>
VerifiedRegistryActorVerifiedClients == <<"verifiedRegistryActor", ".", "VerifiedClients">>
PaymentChannelActorState == <<"paymentChannelActor">>
PaymentChannelActorLaneStates == <<"paymentChannelActor", ".", "LaneStates">>

\* An alias table that also renames a key of the enum.
LotusTypeAliases_RenamedKey ==
    { <<(<<"tipset", ".", "ParentStateRoot">>), LotusTypeStateroot>>,
      <<StorageMinerActorDeadline, StorageMinerActorDeadlines>> }

\* LotusTypeAliases as a set of <<alias, target>> pairs.
LotusTypeAliases ==
    { <<(<<"tipset", ".", "ParentStateRoot">>), LotusTypeStateroot>>,
      <<(<<"initActor", ".", "AddressMap">>), InitActorAddresses>>,
      <<(<<"storagePowerActor", ".", "CronEventQueue">>), StoragePowerActorCronEventQueue>>,
      <<(<<"storagePowerActor", ".", "Claims">>), StoragePowerActorClaims>>,
      <<(<<"storageMinerActor", ".", "Deadlines", ".", "Due", ".", "ExpirationEpochs">>),
        StorageMinerActorDeadlineExpiry>>,
      <<(<<"storageMinerActor", ".", "Deadlines", ".", "Due", ".", "Partitions", ".", "ExpirationEpochs">>),
        StorageMinerActorDeadlinePartitionExpiry>> }

AliasKeys == { a[1] : a \in LotusTypeAliases }

AliasOf(s) == (CHOOSE a \in LotusTypeAliases : a[1] = s)[2]

\* The number of consecutive decimal digits of s from position i on (\d+ is greedy).
RECURSIVE DigitRun(_, _)
DigitRun(s, i) ==
    IF i <= Len(s) /\ s[i] \in Digits THEN 1 + DigitRun(s, i + 1) ELSE 0

\* Length of the match of open \d+ close that starts at position i, 0 if none.
MatchDelimited(s, i, open, close) ==
    IF s[i] # open THEN 0
    ELSE LET n == DigitRun(s, i + 1) IN
         IF n >= 1 /\ i + 1 + n <= Len(s) /\ s[i + 1 + n] = close
         THEN n + 2 ELSE 0

\* simplifyingRe = \[\d+\]
MatchSimplifyingRe(s, i) == MatchDelimited(s, i, "[", "]")

\* simplifyingRe2 = \.\d+\.
MatchSimplifyingRe2(s, i) == MatchDelimited(s, i, ".", ".")

\* regexp.ReplaceAll: the matches are found left to right and do not overlap;
\* the scan resumes after the end of each match.
RECURSIVE ReplaceAllRe(_, _)
ReplaceAllRe(s, i) ==
    IF i > Len(s) THEN <<>>
    ELSE LET m == MatchSimplifyingRe(s, i) IN
         IF m > 0 THEN ReplaceAllRe(s, i + m)
         ELSE <<s[i]>> \o ReplaceAllRe(s, i + 1)

RECURSIVE ReplaceAllRe2(_, _)
ReplaceAllRe2(s, i) ==
    IF i > Len(s) THEN <<>>
    ELSE LET m == MatchSimplifyingRe2(s, i) IN
         IF m > 0 THEN <<".">> \o ReplaceAllRe2(s, i + m)
         ELSE <<s[i]>> \o ReplaceAllRe2(s, i + 1)

\* strings.ReplaceAll(as, "/", ".")
ReplaceSlashes(s) == [i \in 1..Len(s) |-> IF s[i] = "/" THEN "." ELSE s[i]]

\* ResolveType maps incoming type strings to enum known types.
ResolveType(as) ==
    LET norm == ReplaceAllRe2(ReplaceAllRe(ReplaceSlashes(as), 1), 1) IN
    IF norm \in AliasKeys THEN AliasOf(norm) ELSE norm

PathAlphabet == {"a", ".", "/", "[", "]", "1", "2"}

RECURSIVE SeqsUpTo(_, _)
SeqsUpTo(S, n) ==
    IF n = 0 THEN {<<>>}
    ELSE LET shorter == SeqsUpTo(S, n - 1) IN
         shorter \cup { Append(s, x) : s \in shorter, x \in S }

(***************************************************************************)
(* Strings and bytes: sequences of byte values.                            *)
(***************************************************************************)
\* "/" , "_type", "bitfield", "bytes" as Go string literals
StrSlash == <<47>>
StrType == <<95, 116, 121, 112, 101>>
StrBitfield == <<98, 105, 116, 102, 105, 101, 108, 100>>
StrBytes == <<98, 121, 116, 101, 115>>

\* strconv / big.Int.String / fmt.Sprintf("%d"): the decimal text of n >= 0.
RECURSIVE DecimalString(_)
DecimalString(n) ==
    IF n < 10 THEN <<48 + n>>
    ELSE Append(DecimalString(n \div 10), 48 + (n % 10))

\* big.Int.SetBytes: the bytes read as a big-endian unsigned integer.
RECURSIVE SetBytes(_)
SetBytes(v) ==
    IF Len(v) = 0 THEN 0
    ELSE 256 * SetBytes(SubSeq(v, 1, Len(v) - 1)) + v[Len(v)]

\* The rendering when only the low byte of the integer is read.
BigIntString_LowByte(v) == DecimalString(IF Len(v) = 0 THEN 0 ELSE v[Len(v)])

\* big.NewInt(0).SetBytes(v).String()
BigIntString(v) == DecimalString(SetBytes(v))

HexDigit(x) == IF x < 10 THEN 48 + x ELSE 87 + x

\* hex.EncodeToString
RECURSIVE HexEncode(_)
HexEncode(v) ==
    IF Len(v) = 0 THEN <<>>
    ELSE <<HexDigit(v[1] \div 16), HexDigit(v[1] % 16)>> \o HexEncode(Tail(v))

Base64Char(x) ==
    IF x < 26 THEN 65 + x
    ELSE IF x < 52 THEN 97 + (x - 26)
    ELSE IF x < 62 THEN 48 + (x - 52)
    ELSE IF x = 62 THEN 43 ELSE 47

\* base64.StdEncoding.EncodeToString: 3 bytes to 4 characters, padded with "=".
RECURSIVE Base64Encode(_)
Base64Encode(v) ==
    IF Len(v) = 0 THEN <<>>
    ELSE IF Len(v) = 1 THEN
        <<Base64Char(v[1] \div 4), Base64Char((v[1] % 4) * 16), 61, 61>>
    ELSE IF Len(v) = 2 THEN
        <<Base64Char(v[1] \div 4), Base64Char((v[1] % 4) * 16 + v[2] \div 16),
          Base64Char((v[2] % 16) * 4), 61>>
    ELSE
        <<Base64Char(v[1] \div 4), Base64Char((v[1] % 4) * 16 + v[2] \div 16),
          Base64Char((v[2] % 16) * 4 + v[3] \div 64), Base64Char(v[3] % 64)>>
        \o Base64Encode(SubSeq(v, 4, Len(v)))

\* address.NewFromBytes followed by Address.String, for the addresses of the
\* model: no bytes give the undefined address ("<empty>"), protocol byte 0
\* with a one-byte varint payload gives an ID address ("f0" and the decimal
\* id); any other byte string is rejected.
AddressFromBytes(v) ==
    IF Len(v) = 0 THEN [ok |-> TRUE, str |-> <<60, 101, 109, 112, 116, 121, 62>>]
    ELSE IF v[1] = 0 /\ Len(v) = 2 /\ v[2] < 128
         THEN [ok |-> TRUE, str |-> <<102, 48>> \o DecimalString(v[2])]
         ELSE [ok |-> FALSE, str |-> <<>>]

\* cid.Cid.String: the canonical text of a CID given by its binary form, a
\* multibase prefix "b" and one lower-case letter per byte in the model.
CidText(c) == <<98>> \o [i \in 1..Len(c) |-> 97 + (c[i] % 26)]

\* cid.UnmarshalBinary followed by Cid.String: the binary form is accepted
\* when it starts with the version byte 1.
CidFromBytes(v) ==
    IF Len(v) >= 2 /\ v[1] = 1
    THEN [ok |-> TRUE, str |-> CidText(v)]
    ELSE [ok |-> FALSE, str |-> <<>>]

\* bitfield.NewFromBytes: the direct layout starts with the two version bits 00.
BitFieldNewFromBytes(v) ==
    IF Len(v) = 0 \/ v[1] % 4 = 0
    THEN [ok |-> TRUE, rle |-> v]
    ELSE [ok |-> FALSE, rle |-> <<>>]

\* BitField.UnmarshalCBOR: a CBOR byte string (major type 2, short length)
\* wrapping the direct layout.
BitFieldUnmarshalCBOR(v) ==
    IF Len(v) >= 1 /\ v[1] = 64 + (Len(v) - 1) /\ BitFieldNewFromBytes(Tail(v)).ok
    THEN [ok |-> TRUE, rle |-> Tail(v)]
    ELSE [ok |-> FALSE, rle |-> <<>>]

\* The largest run-length encoding, in bytes, that BitField.MarshalCBOR of
\* go-bitfield v0.2.0 (the version go.mod requires) writes.
MaxRleBytes == 8192

\* cbg.CborEncodeMajorType(MajByteString, n) for the lengths MarshalCBOR
\* writes.
CborByteStringHeader(n) ==
    IF n < 24 THEN <<64 + n>>
    ELSE IF n < 256 THEN <<88, n>>
    ELSE <<89, n \div 256, n % 256>>

\* What b.MarshalCBOR(buf) leaves in the fresh buffer: the CBOR byte-string
\* header and the run-length bytes, or nothing when the encoding is too
\* large and MarshalCBOR returns an error, which the caller does not read.
BitFieldMarshalCBOR(rle) ==
    IF Len(rle) > MaxRleBytes THEN <<>>
    ELSE CborByteStringHeader(Len(rle)) \o rle

(***************************************************************************)
(* RLE+ (package rlepluslazy), the compacted form of a bitfield: two       *)
(* version bits 00, the value of the first run, then one block per run,    *)
(* runs alternating: "1" is a run of length 1, "01" and four bits a run of *)
(* length below 16, "00" and a varint any length.  Bits are numbered from  *)
(* the least significant bit of the first byte.                            *)
(***************************************************************************)
Pow2(n) == 2 ^ n

\* The bits of a byte string, then zeros for ever.
BitAt(v, i) == IF i >= 8 * Len(v) THEN 0 ELSE (v[(i \div 8) + 1] \div Pow2(i % 8)) % 2

\* The number read from the n bits that start at bit i.
RECURSIVE BitsAt(_, _, _)
BitsAt(v, i, n) == IF n = 0 THEN 0 ELSE BitAt(v, i) + 2 * BitsAt(v, i + 1, n - 1)

\* The block that starts at bit i: the length of its run and the bit after
\* it (a varint of one or two bytes).
RleBlock(v, i) ==
    IF BitAt(v, i) = 1 THEN [len |-> 1, next |-> i + 1]
    ELSE IF BitAt(v, i + 1) = 1 THEN [len |-> BitsAt(v, i + 2, 4), next |-> i + 6]
    ELSE IF BitAt(v, i + 9) = 0 THEN [len |-> BitsAt(v, i + 2, 7), next |-> i + 10]
    ELSE [len |-> BitsAt(v, i + 2, 7) + 128 * BitsAt(v, i + 10, 7), next |-> i + 18]

\* The set bits of the runs from bit i on: the run that starts there has
\* the value val and covers the positions from at on; a run of length 0
\* ends the runs.
RECURSIVE RleBits(_, _, _, _)
RleBits(v, i, val, at) ==
    IF RleBlock(v, i).len = 0 THEN {}
    ELSE (IF val = 1 THEN at..(at + RleBlock(v, i).len - 1) ELSE {})
             \cup RleBits(v, RleBlock(v, i).next, 1 - val, at + RleBlock(v, i).len)

\* The set of bits a run-length byte string holds.
RleDecode(v) == RleBits(v, 3, BitAt(v, 2), 0)

\* The bits of a number, least significant first, n of them.
RECURSIVE NumBits(_, _)
NumBits(x, n) == IF n = 0 THEN <<>> ELSE <<x % 2>> \o NumBits(x \div 2, n - 1)

\* The block of a run of length len (below 128).
RleBlockOf(len) ==
    IF len = 1 THEN <<1>>
    ELSE IF len < 16 THEN <<0, 1>> \o NumBits(len, 4)
    ELSE <<0, 0>> \o NumBits(len, 8)

\* The length of the run of equal values that starts at position at.
RECURSIVE RunLen(_, _, _)
RunLen(S, at, max) ==
    IF at = max \/ ((at + 1 \in S) # (at \in S)) THEN 1 ELSE 1 + RunLen(S, at + 1, max)

\* The blocks of the runs from position at up to the last set bit max.
RECURSIVE RleBlocksFrom(_, _, _)
RleBlocksFrom(S, at, max) ==
    IF at > max THEN <<>>
    ELSE RleBlockOf(RunLen(S, at, max)) \o RleBlocksFrom(S, at + RunLen(S, at, max), max)

\* The number whose bits, least significant first, are the sequence bits.
RECURSIVE SumBits(_)
SumBits(bits) == IF Len(bits) = 0 THEN 0 ELSE bits[1] + 2 * SumBits(Tail(bits))

\* The bytes of a bit sequence, the last byte padded with zeros.
RECURSIVE PackBits(_)
PackBits(bits) ==
    IF Len(bits) = 0 THEN <<>>
    ELSE IF Len(bits) <= 8
         THEN <<SumBits(bits)>>
         ELSE <<SumBits(SubSeq(bits, 1, 8))>> \o PackBits(SubSeq(bits, 9, Len(bits)))

\* rlepluslazy.EncodeRuns: the compacted form of the bit set S (no byte
\* for the empty set).
RleEncode(S) ==
    IF S = {} THEN <<>>
    ELSE LET max == CHOOSE x \in S : \A y \in S : y <= x IN
         PackBits(<<0, 0, IF 0 \in S THEN 1 ELSE 0>> \o RleBlocksFrom(S, 0, max))

\* The CBOR byte string (short length) that wraps the bytes v.
CborWrap(v) == <<64 + Len(v)>> \o v

(***************************************************************************)
(* Nodes (ipld.Node).  Every node is a record of the same shape; the       *)
(* fields that a kind does not use hold a default.                         *)
(*   kind : the representation kind, "Other" for a kind outside the enum   *)
(*   tag  : the Go type the marshaler tests for (types.RawAddress,         *)
(*          types.CidString, types.Address, types.BigInt, types.BitField)  *)
(*   kids : map entries or list elements, [key, val, err]; err is an error *)
(*          of the iterator / of LookupByIndex at that position            *)
(*   lnk  : "cid" for a cidlink.Link, "other" for any other ipld.Link      *)
(***************************************************************************)
Nd(kind, tag, b, i, s, kids, lnk) ==
    [kind |-> kind, tag |-> tag, b |-> b, i |-> i, s |-> s, kids |-> kids, lnk |-> lnk]

AbsentNode == Nd("Invalid", "", FALSE, 0, <<>>, <<>>, "")
NullNode == Nd("Null", "", FALSE, 0, <<>>, <<>>, "")
BoolNode(b) == Nd("Bool", "", b, 0, <<>>, <<>>, "")
IntNode(i) == Nd("Int", "", FALSE, i, <<>>, <<>>, "")
FloatNode(i) == Nd("Float", "", FALSE, i, <<>>, <<>>, "")
StringNode(tag, s) == Nd("String", tag, FALSE, 0, s, <<>>, "")
BytesNode(tag, s) == Nd("Bytes", tag, FALSE, 0, s, <<>>, "")
LinkNode(c) == Nd("Link", "", FALSE, 0, c, <<>>, "cid")
OtherLinkNode(c) == Nd("Link", "", FALSE, 0, c, <<>>, "other")
MapNode(kids) == Nd("Map", "", FALSE, 0, <<>>, kids, "")
ListNode(kids) == Nd("List", "", FALSE, 0, <<>>, kids, "")
OtherKindNode == Nd("Other", "", FALSE, 0, <<>>, <<>>, "")

Entry(k, v) == [key |-> k, val |-> v, err |-> FALSE]
BadEntry(k, v) == [key |-> k, val |-> v, err |-> TRUE]
Elem(v) == [key |-> NullNode, val |-> v, err |-> FALSE]
BadElem(v) == [key |-> NullNode, val |-> v, err |-> TRUE]

(***************************************************************************)
(* Tokens (tok.Token) and the sink (shared.TokenSink).                     *)
(***************************************************************************)
Tok(type, length, str, num, b) ==
    [type |-> type, length |-> length, str |-> str, num |-> num, b |-> b]

TNull == Tok("TNull", 0, <<>>, 0, FALSE)
TMapOpen(n) == Tok("TMapOpen", n, <<>>, 0, FALSE)
TMapClose == Tok("TMapClose", 0, <<>>, 0, FALSE)
TArrOpen(n) == Tok("TArrOpen", n, <<>>, 0, FALSE)
TArrClose == Tok("TArrClose", 0, <<>>, 0, FALSE)
TString(s) == Tok("TString", 0, s, 0, FALSE)
TInt(i) == Tok("TInt", 0, <<>>, i, FALSE)
TFloat64(i) == Tok("TFloat64", 0, <<>>, i, FALSE)
TBool(b) == Tok("TBool", 0, <<>>, 0, b)

\* The state a marshal call threads through its recursion:
\*   tokens : the tokens the sink has accepted
\*   steps  : the number of sink.Step calls made
\*   failAt : the sink rejects the failAt-th Step call (0: it never fails)
\*   late   : the number of Step calls made after a Step call has failed
\*   err    : the error being returned ("" for nil)
\*   panic  : the call panicked
\*   loads  : the <<cid, path>> arguments of the Loader calls made
SinkState(failAt) ==
    [tokens |-> <<>>, steps |-> 0, failAt |-> failAt, late |-> 0,
     err |-> "", panic |-> FALSE, loads |-> <<>>]

SinkFailed(st) == st.failAt # 0 /\ st.steps >= st.failAt

\* sink.Step(&tk): the token is accepted, or the call returns the sink's error.
Step(st, tk) ==
    IF SinkFailed(st)
    THEN [st EXCEPT !.steps = @ + 1, !.late = @ + 1, !.err = "sink"]
    ELSE IF st.steps + 1 = st.failAt
    THEN [st EXCEPT !.steps = @ + 1, !.err = "sink"]
    ELSE [st EXCEPT !.steps = @ + 1, !.tokens = Append(@, tk)]

\* return fmt.Errorf(...) / return err
Fail(st, e) == [st EXCEPT !.err = e]

RECURSIVE EmitAll(_, _)
\* Step calls in sequence, each followed by "if err != nil { return err }".
EmitAll(st, tks) ==
    IF Len(tks) = 0 THEN st
    ELSE LET s1 == Step(st, Head(tks)) IN
         IF s1.err # "" THEN s1 ELSE EmitAll(s1, Tail(tks))

(***************************************************************************)
(* Loaders (fcjson.Loader): func(cid.Cid, ipld.Path) ipld.Node.  A loader  *)
(* is named; "nil" is the absent Loader field of a zero DagMarshaler.      *)
(* The nodes a loader returns link only to CIDs it resolves to smaller     *)
(* nodes (content addressing is acyclic).                                  *)
(***************************************************************************)
CidA == <<1, 0>>
CidB == <<1, 1>>
CidC == <<1, 2>>

StrA == <<97>>
StrHi == <<104, 105>>

NilNode == [found |-> FALSE, node |-> AbsentNode]
Found(n) == [found |-> TRUE, node |-> n]

\* "none" returns nil for every CID; "store" resolves CidA and CidB whatever
\* the path; "byPath" resolves CidA differently at the root and below it.
\* "loop" and "self" are the loaders of a store that is not content
\* addressed: CidA resolves to a list that links to CidA, or to the link
\* itself.
LoaderCall(l, c, p) ==
    CASE l = "store" /\ c = CidA -> Found(StringNode("", StrHi))
      [] l = "store" /\ c = CidB ->
            Found(MapNode(<<Entry(StringNode("", StrA), LinkNode(CidA)),
                            Entry(StringNode("RawAddress", <<0, 5>>), LinkNode(CidC))>>))
      [] l = "byPath" /\ c = CidA ->
            IF Len(p) = 0 THEN Found(IntNode(7)) ELSE Found(ListNode(<<Elem(NullNode)>>))
      [] l = "byPath" /\ c = CidB ->
            Found(ListNode(<<Elem(LinkNode(CidA)), Elem(AbsentNode)>>))
      [] l = "loop" /\ c = CidA -> Found(ListNode(<<Elem(LinkNode(CidA))>>))
      [] l = "self" /\ c = CidA -> Found(LinkNode(CidA))
      [] OTHER -> NilNode

Loaders == {"nil", "none", "store", "byPath"}

(***************************************************************************)
(* The streaming marshaler (DagMarshaler.MarshalRecursive).                *)
(* A marshaler d is [loader, path]; every operator takes the sink state    *)
(* and returns it as the call leaves it.                                   *)
(***************************************************************************)
\* The key or string re-rendering: types.RawAddress and types.CidString hold
\* raw bytes that are re-rendered as text, any other string passes through.
RenderString(n) ==
    IF n.tag = "RawAddress" THEN AddressFromBytes(n.s)
    ELSE IF n.tag = "CidString" THEN CidFromBytes(n.s)
    ELSE [ok |-> TRUE, str |-> n.s]

\* ipld.Path.AppendSegment(ipld.PathSegmentOfString(s)): a new path value.
AppendSegment(p, s) == Append(p, s)

\* next.Path when the copy keeps the path of the map.
MapChildPath_SamePath(d, str) == d.path

\* next.Path of the value under the key emitted as str.
MapChildPath(d, str) == AppendSegment(d.path, str)

\* next.Path of the list element at index i: the result of AppendSegment is
\* not assigned, so the copy keeps the path of d.
ListChildPath(d, i) == d.path

\* case ipld.ReprKind_String
MarshalString(n, st) ==
    LET r == RenderString(n) IN
    IF ~r.ok THEN Fail(st, "decode") ELSE Step(st, TString(r.str))

\* The bitfield decoded from the bytes: the direct layout first, the CBOR
\* wrapping when that fails.
BitFieldDecode(v) ==
    LET b == BitFieldNewFromBytes(v) IN
    IF b.ok THEN b ELSE BitFieldUnmarshalCBOR(v)

\* case ipld.ReprKind_Bytes
MarshalBytes(n, st) ==
    IF n.tag = "Address" THEN
        LET a == AddressFromBytes(n.s) IN
        IF ~a.ok THEN Fail(st, "decode") ELSE Step(st, TString(a.str))
    ELSE IF n.tag = "BigInt" THEN Step(st, TString(BigIntString(n.s)))
    ELSE IF n.tag = "BitField" THEN
        LET b == BitFieldDecode(n.s) IN
        IF ~b.ok THEN Fail(st, "decode")
        ELSE EmitAll(st, <<TMapOpen(2), TString(StrType), TString(StrBitfield),
                           TString(StrBytes),
                           TString(HexEncode(BitFieldMarshalCBOR(b.rle))),
                           TMapClose>>)
    ELSE Step(st, TString(Base64Encode(n.s)))

\* The link wrapper without its "/" key.
LinkTokens_NoKey(c) == <<TMapOpen(1), TString(CidText(c)), TMapClose>>

\* "Precisely four tokens to emit"
LinkTokens(c) == <<TMapOpen(1), TString(StrSlash), TString(CidText(c)), TMapClose>>

RECURSIVE MarshalRecursive(_, _, _)
RECURSIVE MarshalMapEntries(_, _, _, _)
RECURSIVE MarshalListElems(_, _, _, _)

\* The link case when the node the loader returns is not used.
MarshalLink_NoInline(d, n, st) ==
    IF n.lnk # "cid" THEN Fail(st, "link")
    ELSE IF d.loader # "nil" THEN
        EmitAll([st EXCEPT !.loads = Append(@, <<n.s, d.path>>)], LinkTokens(n.s))
    ELSE EmitAll(st, LinkTokens(n.s))

\* The link case when a link of another type is handed to the loader and
\* emitted like a CID link.
MarshalLink_AnyLink(d, n, st) ==
    IF d.loader # "nil" THEN
        EmitAll([st EXCEPT !.loads = Append(@, <<n.s, d.path>>)], LinkTokens(n.s))
    ELSE EmitAll(st, LinkTokens(n.s))

\* case ipld.ReprKind_Link
MarshalLink(d, n, st) ==
    IF n.lnk # "cid" THEN Fail(st, "link")
    ELSE IF d.loader # "nil" THEN
        LET node == LoaderCall(d.loader, n.s, d.path)
            s1 == [st EXCEPT !.loads = Append(@, <<n.s, d.path>>)] IN
        IF node.found THEN MarshalRecursive(d, node.node, s1)
        ELSE EmitAll(s1, LinkTokens(n.s))
    ELSE EmitAll(st, LinkTokens(n.s))

\* The map loop when the error of the key's Step call is dropped.
MarshalMapEntry_DropStepErr(d, e, st) ==
    IF e.err THEN Fail(st, "iterator")
    ELSE LET r == RenderString(e.key) IN
         IF ~r.ok THEN Fail(st, "decode")
         ELSE LET s1 == Step(st, TString(r.str)) IN
              MarshalRecursive([d EXCEPT !.path = MapChildPath(d, r.str)], e.val,
                               [s1 EXCEPT !.err = ""])

\* One turn of the map loop: the key token, then the value.
MarshalMapEntry(d, e, st) ==
    IF e.err THEN Fail(st, "iterator")
    ELSE LET r == RenderString(e.key) IN
         IF ~r.ok THEN Fail(st, "decode")
         ELSE LET s1 == Step(st, TString(r.str)) IN
              IF s1.err # "" THEN s1
              ELSE MarshalRecursive([d EXCEPT !.path = MapChildPath(d, r.str)], e.val, s1)

MarshalMapEntries(d, kids, i, st) ==
    IF i > Len(kids) THEN st
    ELSE LET s1 == MarshalMapEntry(d, kids[i], st) IN
         IF s1.err # "" THEN s1 ELSE MarshalMapEntries(d, kids, i + 1, s1)

\* case ipld.ReprKind_Map
MarshalMap(d, n, st) ==
    LET s1 == Step(st, TMapOpen(Len(n.kids))) IN
    IF s1.err # "" THEN s1
    ELSE LET s2 == MarshalMapEntries(d, n.kids, 1, s1) IN
         IF s2.err # "" THEN s2 ELSE Step(s2, TMapClose)

\* One turn of the list loop (i is the Go index).
MarshalListElem(d, e, i, st) ==
    IF e.err THEN Fail(st, "lookup")
    ELSE MarshalRecursive([d EXCEPT !.path = ListChildPath(d, i)], e.val, st)

MarshalListElems(d, kids, i, st) ==
    IF i > Len(kids) THEN st
    ELSE LET s1 == MarshalListElem(d, kids[i], i - 1, st) IN
         IF s1.err # "" THEN s1 ELSE MarshalListElems(d, kids, i + 1, s1)

\* The list case when the closing token is not emitted.
MarshalList_NoClose(d, n, st) ==
    LET s1 == Step(st, TArrOpen(Len(n.kids))) IN
    IF s1.err # "" THEN s1 ELSE MarshalListElems(d, n.kids, 1, s1)

\* case ipld.ReprKind_List
MarshalList(d, n, st) ==
    LET s1 == Step(st, TArrOpen(Len(n.kids))) IN
    IF s1.err # "" THEN s1
    ELSE LET s2 == MarshalListElems(d, n.kids, 1, s1) IN
         IF s2.err # "" THEN s2 ELSE Step(s2, TArrClose)

\* The traversal when a kind outside the switch is reported like an absent
\* node, as an error.
MarshalRecursive_NoPanic(d, n, st) ==
    CASE n.kind = "Invalid" -> Fail(st, "absent")
      [] n.kind = "Null" -> Step(st, TNull)
      [] n.kind = "Map" -> MarshalMap(d, n, st)
      [] n.kind = "List" -> MarshalList(d, n, st)
      [] n.kind = "Bool" -> Step(st, TBool(n.b))
      [] n.kind = "Int" -> Step(st, TInt(n.i))
      [] n.kind = "Float" -> Step(st, TFloat64(n.i))
      [] n.kind = "String" -> MarshalString(n, st)
      [] n.kind = "Bytes" -> MarshalBytes(n, st)
      [] n.kind = "Link" -> MarshalLink(d, n, st)
      [] OTHER -> Fail(st, "absent")

MarshalRecursive(d, n, st) ==
    CASE n.kind = "Invalid" -> Fail(st, "absent")
      [] n.kind = "Null" -> Step(st, TNull)
      [] n.kind = "Map" -> MarshalMap(d, n, st)
      [] n.kind = "List" -> MarshalList(d, n, st)
      [] n.kind = "Bool" -> Step(st, TBool(n.b))
      [] n.kind = "Int" -> Step(st, TInt(n.i))
      [] n.kind = "Float" -> Step(st, TFloat64(n.i))
      [] n.kind = "String" -> MarshalString(n, st)
      [] n.kind = "Bytes" -> MarshalBytes(n, st)
      [] n.kind = "Link" -> MarshalLink(d, n, st)
      [] OTHER -> [st EXCEPT !.panic = TRUE, !.err = "panic"]

\* Marshal is a non-link-aware marshaler: a zero DagMarshaler.
Marshal(n, st) == MarshalRecursive([loader |-> "nil", path |-> <<>>], n, st)

(***************************************************************************)
(* The registries.  A prototype is named as in types.Type.                 *)
(***************************************************************************)
\* LotusPrototypes provide expected node types for each state type.
LotusPrototypes ==
    { <<LotusTypeTipset, "LotusBlockHeader__Repr">>,
      <<AccountActorState, "AccountV0State__Repr">>,
      <<CronActorState, "CronV0State__Repr">>,
      <<InitActorState, "InitV0State__Repr">>,
      <<MarketActorState, "MarketV0State__Repr">>,
      <<MultisigActorState, "MultisigV0State__Repr">>,
      <<StorageMinerActorState, "MinerV0State__Repr">>,
      <<StorageMinerActorInfo, "MinerV0Info__Repr">>,
      <<StorageMinerActorVestingFunds, "MinerV0VestingFunds__Repr">>,
      <<StorageMinerActorAllocatedSectors, "BitField__Repr">>,
      <<StorageMinerActorDeadlines, "MinerV0Deadlines__Repr">>,
      <<StorageMinerActorDeadline, "MinerV0Deadline__Repr">>,
      <<StoragePowerActorState, "PowerV0State__Repr">>,
      <<RewardActorState, "RewardV0State__Repr">>,
      <<VerifiedRegistryActorState, "VerifregV0State__Repr">>,
      <<PaymentChannelActorState, "PaychV0State__Repr">>,
      <<LotusTypeStateroot, "Map__LotusActors__Repr">>,
      <<InitActorAddresses, "Map__ActorID__Repr">>,
      <<StorageMinerActorPreCommittedSectors, "Map__SectorPreCommitOnChainInfo__Repr">>,
      <<StorageMinerActorDeadlinePartitionEarly, "Map__BitField__Repr">>,
      <<StorageMinerActorPreCommittedSectorsExpiry, "Map__BitField__Repr">>,
      <<StorageMinerActorSectors, "Map__SectorOnChainInfo__Repr">>,
      <<StorageMinerActorDeadlinePartitions, "Map__MinerV0Partition__Repr">>,
      <<StorageMinerActorDeadlinePartitionExpiry, "Map__MinerV0ExpirationSet__Repr">>,
      <<StorageMinerActorDeadlineExpiry, "Map__BitField__Repr">>,
      <<StoragePowerActorCronEventQueue, "Map__PowerV0CronEvent__Repr">>,
      <<StoragePowerActorClaims, "Map__PowerV0Claim__Repr">>,
      <<VerifiedRegistryActorVerifiers, "Map__DataCap__Repr">>,
      <<VerifiedRegistryActorVerifiedClients, "Map__DataCap__Repr">>,
      <<MarketActorPendingProposals, "Map__MarketV0DealProposal__Repr">>,
      <<MarketActorProposals, "Map__MarketV0RawDealProposal__Repr">>,
      <<MarketActorStates, "Map__MarketV0DealState__Repr">>,
      <<MarketActorEscrowTable, "Map__BalanceTable__Repr">>,
      <<MarketActorLockedTable, "Map__BalanceTable__Repr">>,
      <<MarketActorDealOpsByEpoch, "Map__List__DealID__Repr">>,
      <<MultisigActorPending, "Map__MultisigV0Transaction__Repr">>,
      <<PaymentChannelActorLaneStates, "Map__PaychV0LaneState__Repr">> }

RegisteredKeys == { e[1] : e \in LotusPrototypes }

\* LotusPrototypes[key]
PrototypeOf(key) == (CHOOSE e \in LotusPrototypes : e[1] = key)[2]

\* complexLoaders: prototype to the name of its structure decoder.
complexLoaders ==
    { <<"Map__LotusActors__Repr", "transformStateRoot">>,
      <<"Map__ActorID__Repr", "transformInitActor">>,
      <<"Map__SectorPreCommitOnChainInfo__Repr", "transformMinerActorPreCommittedSectors">>,
      <<"Map__BitField__Repr", "transformMinerActorBitfieldHamt">>,
      <<"Map__SectorOnChainInfo__Repr", "transformMinerActorSectors">>,
      <<"Map__MinerV0Partition__Repr", "transformMinerActorDeadlinePartitions">>,
      <<"Map__MinerV0ExpirationSet__Repr", "transformMinerActorDeadlinePartitionExpiry">>,
      <<"Map__PowerV0CronEvent__Repr", "transformPowerActorEventQueue">>,
      <<"Map__PowerV0Claim__Repr", "transformPowerActorClaims">>,
      <<"Map__DataCap__Repr", "transformVerifiedRegistryDataCaps">>,
      <<"Map__MarketV0DealProposal__Repr", "transformMarketProposals">>,
      <<"Map__MarketV0RawDealProposal__Repr", "transformMarketPendingProposals">>,
      <<"Map__MarketV0DealState__Repr", "transformMarketStates">>,
      <<"Map__BalanceTable__Repr", "transformMarketBalanceTable">>,
      <<"Map__List__DealID__Repr", "transformMarketDealOpsByEpoch">>,
      <<"Map__MultisigV0Transaction__Repr", "transformMultisigPending">>,
      <<"Map__PaychV0LaneState__Repr", "transformPaymentChannelLaneStates">> }

ComplexPrototypes == { e[1] : e \in complexLoaders }

\* complexLoaders[prototype]
ComplexLoaderOf(proto) == (CHOOSE e \in complexLoaders : e[1] = proto)[2]

(***************************************************************************)
(* The schema types the decoders build: the type of a map's values, as the *)
(* decoder of that map fills them, and each type's representation kind.    *)
(***************************************************************************)
\* The value type of a map prototype: the type of the node (or primitive)
\* the decoders assign into the entries of a builder of that prototype.
ValueType(proto) ==
    CASE proto = "Map__LotusActors__Repr" -> "LotusActors__Repr"
      [] proto = "Map__ActorID__Repr" -> "ActorID"
      [] proto = "Map__SectorPreCommitOnChainInfo__Repr" -> "MinerV0SectorPreCommitOnChainInfo__Repr"
      [] proto = "Map__BitField__Repr" -> "BitField"
      [] proto = "Map__SectorOnChainInfo__Repr" -> "MinerV0SectorOnChainInfo__Repr"
      [] proto = "Map__MinerV0Partition__Repr" -> "MinerV0Partition__Repr"
      [] proto = "Map__MinerV0ExpirationSet__Repr" -> "MinerV0ExpirationSet__Repr"
      [] proto = "Map__PowerV0CronEvent__Repr" -> "PowerV0CronEvent__Repr"
      [] proto = "Map__PowerV0Claim__Repr" -> "PowerV0Claim__Repr"
      [] proto = "Map__DataCap__Repr" -> "DataCap"
      [] proto = "Map__MarketV0DealProposal__Repr" -> "MarketV0DealProposal__Repr"
      [] proto = "Map__MarketV0RawDealProposal__Repr" -> "MarketV0DealProposal__Repr"
      [] proto = "Map__MarketV0DealState__Repr" -> "MarketV0DealState__Repr"
      [] proto = "Map__BalanceTable__Repr" -> "BalanceTable"
      [] proto = "Map__List__DealID__Repr" -> "List__DealID__Repr"
      [] proto = "Map__MultisigV0Transaction__Repr" -> "MultisigV0Transaction__Repr"
      [] proto = "Map__PaychV0LaneState__Repr" -> "PaychV0LaneState__Repr"
      [] proto = "Multimap__PowerV0CronEvent__Repr" -> "Map__PowerV0CronEvent__Repr"
      [] OTHER -> "Any"

\* The representation kind of a type: the map prototypes are maps, the list
\* of deal ids a list, ids integers, bitfields and amounts bytes; every other
\* type is a struct, and the structs of the schema have the tuple
\* representation (a list).
TypeKind(t) ==
    IF t \in ComplexPrototypes \/ t = "Multimap__PowerV0CronEvent__Repr" THEN "Map"
    ELSE IF t = "List__DealID__Repr" THEN "List"
    ELSE IF t \in {"ActorID", "DealID"} THEN "Int"
    ELSE IF t \in {"BitField", "BitField__Repr", "DataCap", "BalanceTable"} THEN "Bytes"
    ELSE "List"

\* The Go type the marshaler sees for a node of type t.
GoType(t) == IF t \in {"BitField", "BitField__Repr"} THEN "BitField" ELSE t

(***************************************************************************)
(* CBOR items (what dagcbor.Decoder and cbor.DecodeInto read): small       *)
(* unsigned integers, short byte and text strings, short arrays, null.     *)
(***************************************************************************)
NoItem == [ok |-> FALSE, node |-> AbsentNode, next |-> 0]

RECURSIVE CborItem(_, _)
RECURSIVE CborItems(_, _, _, _)

\* The n items of an array starting at pos, appended to acc.
CborItems(raw, pos, n, acc) ==
    IF n = 0 THEN [ok |-> TRUE, node |-> ListNode(acc), next |-> pos]
    ELSE LET it == CborItem(raw, pos) IN
         IF ~it.ok THEN NoItem
         ELSE CborItems(raw, it.next, n - 1, Append(acc, Elem(it.node)))

\* The item that starts at pos.
CborItem(raw, pos) ==
    IF pos > Len(raw) THEN NoItem
    ELSE LET b == raw[pos] IN
         IF b < 24 THEN [ok |-> TRUE, node |-> IntNode(b), next |-> pos + 1]
         ELSE IF b >= 64 /\ b < 88 THEN
             IF pos + (b - 64) > Len(raw) THEN NoItem
             ELSE [ok |-> TRUE, node |-> BytesNode("", SubSeq(raw, pos + 1, pos + (b - 64))),
                   next |-> pos + (b - 64) + 1]
         ELSE IF b >= 96 /\ b < 120 THEN
             IF pos + (b - 96) > Len(raw) THEN NoItem
             ELSE [ok |-> TRUE, node |-> StringNode("", SubSeq(raw, pos + 1, pos + (b - 96))),
                   next |-> pos + (b - 96) + 1]
         ELSE IF b >= 128 /\ b < 152 THEN CborItems(raw, pos + 1, b - 128, <<>>)
         ELSE IF b = 246 THEN [ok |-> TRUE, node |-> NullNode, next |-> pos + 1]
         ELSE NoItem

(***************************************************************************)
(* Builders and assemblers (the generated code of package types).          *)
(***************************************************************************)
\* A decode or assignment result: the node, or the error.
Ok(n) == [err |-> "", node |-> n]
Err(e) == [err |-> e, node |-> AbsentNode]

\* NodeAssembler.AssignNode for an assembler of type t: a node of another
\* kind is rejected, a node of the same kind is stored as a node of type t.
AssignNode(t, n) ==
    IF n.kind # TypeKind(t) THEN Err("wrong kind") ELSE Ok([n EXCEPT !.tag = GoType(t)])

\* NodeAssembler.AssignInt for an assembler of type t.
AssignInt(t, i) ==
    IF TypeKind(t) # "Int" THEN Err("wrong kind") ELSE Ok([IntNode(i) EXCEPT !.tag = GoType(t)])

\* NodeAssembler.AssignBytes for an assembler of type t.
AssignBytes(t, v) ==
    IF TypeKind(t) # "Bytes" THEN Err("wrong kind") ELSE Ok(BytesNode(GoType(t), v))

\* dagcbor.Decoder(builder of type t, raw) followed by Build: the item
\* the bytes hold, assigned into the builder.
DagCborDecode(t, raw) ==
    LET it == CborItem(raw, 1) IN
    IF ~it.ok THEN Err("decode") ELSE AssignNode(t, it.node)

\* cbor.DecodeInto(raw, &actorID) for a cbg.CborInt.
DecodeCborInt(raw) ==
    LET it == CborItem(raw, 1) IN
    IF ~it.ok \/ it.node.kind # "Int" THEN [err |-> "decode", i |-> 0]
    ELSE [err |-> "", i |-> it.node.i]

\* A map or list assembler while a decoder fills it:
\*   vt      : the type of its values
\*   entries : the entries (elements) assembled so far
\*   mid     : an entry has been opened and not yet assigned
\*   err     : the error the decoder is returning, "" for none
\*   done    : Finish has been called
NewAssembler(vt) ==
    [vt |-> vt, entries |-> <<>>, mid |-> FALSE, err |-> "", done |-> FALSE, keys |-> <<>>,
     finishes |-> 0, broken |-> FALSE, inner |-> <<>>]

\* builder.BeginMap(0) on a builder of prototype proto.
BeginMap(proto) ==
    IF TypeKind(proto) # "Map"
    THEN [NewAssembler("Any") EXCEPT !.err = "wrong kind"]
    ELSE NewAssembler(ValueType(proto))

\* builder.BeginList(0) on a builder of prototype proto.
BeginList(proto) ==
    IF TypeKind(proto) # "List"
    THEN [NewAssembler("Any") EXCEPT !.err = "wrong kind"]
    ELSE NewAssembler("DealID")

HasKey(ma, k) == \E i \in 1..Len(ma.entries) : ma.entries[i].key.s = k

\* mapper.AssembleEntry(k): a repeated key is an error.  keys lists the
\* keys the calls were made with.
AssembleEntry(ma, k) ==
    IF HasKey(ma, k) THEN [ma EXCEPT !.err = "repeated key", !.keys = Append(@, k)]
    ELSE [ma EXCEPT !.mid = TRUE, !.keys = Append(@, k)]

\* The assignment into the entry opened for key k completes (r is the
\* result of AssignNode / AssignInt / AssignBytes).
AssignEntry(ma, k, r) ==
    IF r.err # "" THEN [ma EXCEPT !.err = r.err]
    ELSE [ma EXCEPT !.entries = Append(@, Entry(StringNode("", k), r.node)), !.mid = FALSE]

\* amtL.AssembleValue().AssignInt(i)
AssignValue(la, r) ==
    IF r.err # "" THEN [la EXCEPT !.err = r.err]
    ELSE [la EXCEPT !.entries = Append(@, Elem(r.node))]

\* mapper.Finish(); finishes counts the calls.
Finish(ma) == [ma EXCEPT !.done = TRUE, !.finishes = @ + 1]

\* What a decoder did with the assembler la of a nested builder: whether the
\* iteration that filled it returned an error, how many times Finish was
\* called on it, and whether Build was called on its builder.
InnerUse(la) ==
    [broken |-> la.broken \/ la.err # "", finishes |-> la.finishes, built |-> la.err = ""]

(***************************************************************************)
(* The block store and the sharded structures.  What the store holds under *)
(* a CID is a record                                                       *)
(*   shape   : "missing" (no block), "flat" (one CBOR document), "hamt",   *)
(*             "amt"                                                       *)
(*   raw     : the bytes of a flat block                                   *)
(*   entries : the entries of a structure in its native order              *)
(*   failAt  : the iteration fails on reaching this entry (a missing or    *)
(*             corrupt shard), 0 for an intact structure                   *)
(* and an entry is                                                         *)
(*   k        : the raw key of a HAMT entry                                *)
(*   idx      : the index of an AMT entry                                  *)
(*   deferred : the value arrives as a *cbg.Deferred                       *)
(*   raw      : the bytes of the deferred value                            *)
(*   sub      : the structure stored under the CID the value holds         *)
(*              (shape "none" when the value is not a CID)                 *)
(***************************************************************************)
NoSub == [shape |-> "none", raw |-> <<>>, entries |-> <<>>, failAt |-> 0]
MissingBlock == [shape |-> "missing", raw |-> <<>>, entries |-> <<>>, failAt |-> 0]
FlatBlock(raw) == [shape |-> "flat", raw |-> raw, entries |-> <<>>, failAt |-> 0]
Hamt(entries, failAt) == [shape |-> "hamt", raw |-> <<>>, entries |-> entries, failAt |-> failAt]
Amt(entries, failAt) == [shape |-> "amt", raw |-> <<>>, entries |-> entries, failAt |-> failAt]

HamtEntry(k, raw) == [k |-> k, idx |-> 0, deferred |-> TRUE, raw |-> raw, sub |-> NoSub]
HamtCidEntry(k, sub) == [k |-> k, idx |-> 0, deferred |-> TRUE, raw |-> <<216, 42>>, sub |-> sub]
AmtEntry(idx, raw) == [k |-> <<>>, idx |-> idx, deferred |-> TRUE, raw |-> raw, sub |-> NoSub]

\* hamt.LoadNode / adt.AsMap / adt.AsMultimap / adt.AsSet (shape "hamt") and
\* adt.AsArray (shape "amt"): the error of loading the root, "" for none.
LoadStructure(blk, shape) ==
    IF blk.shape = "missing" THEN "not found"
    ELSE IF blk.shape # shape THEN "structure"
    ELSE ""

\* abi.ParseUIntKey: binary.Uvarint of the key; the key is rejected unless
\* the varint takes all of its bytes (no byte reads as 0 of 0 bytes).
ParseUIntKey(d) ==
    IF Len(d) = 0 THEN [err |-> "", i |-> 0]
    ELSE IF Len(d) = 1 /\ d[1] < 128 THEN [err |-> "", i |-> d[1]]
    ELSE IF Len(d) = 2 /\ d[1] >= 128 /\ d[2] < 128
         THEN [err |-> "", i |-> (d[1] - 128) + 128 * d[2]]
         ELSE [err |-> "varint", i |-> 0]

\* CBORBytes.UnmarshalCBOR: the element's bytes as they are stored.
CBORBytesOf(raw) == raw

(***************************************************************************)
(* The structure decoders.  A decoder takes the block stored under the CID *)
(* and the prototype of the builder it fills, and returns the assembler as *)
(* it leaves it: err is the error returned, done tells Finish was called.  *)
(* A mode [shape, key, val, elem] names what the decoders of one shape     *)
(* differ in: key is "string" (the key as it is), "bigint" (the decimal    *)
(* text of the key bytes read big-endian) or "index"; val is "node"        *)
(* (decode into a builder of type elem, AssignNode), "int" (decode a       *)
(* CborInt, AssignInt) or "bytes" (AssignBytes of the raw bytes).          *)
(***************************************************************************)
Mode(shape, key, val, elem) == [shape |-> shape, key |-> key, val |-> val, elem |-> elem]

\* The key when no callback reads the raw key as an integer.
EntryKey_Unchanged(e, mode) ==
    IF mode.key = "index" THEN DecimalString(e.idx) ELSE e.k

\* The key a callback hands to AssembleEntry.
EntryKey(e, mode) ==
    IF mode.key = "bigint" THEN BigIntString(e.k)
    ELSE IF mode.key = "index" THEN DecimalString(e.idx)
    ELSE e.k

\* The value a callback assigns, as the result of its Assign call.
EntryValue(vt, e, mode) ==
    IF mode.val = "node" THEN
        LET d == DagCborDecode(mode.elem, e.raw) IN
        IF d.err # "" THEN d ELSE AssignNode(vt, d.node)
    ELSE IF mode.val = "int" THEN
        LET d == DecodeCborInt(e.raw) IN
        IF d.err # "" THEN Err(d.err) ELSE AssignInt(vt, d.i)
    ELSE IF mode.shape = "amt" THEN AssignBytes(vt, CBORBytesOf(e.raw))
    ELSE AssignBytes(vt, e.raw)

\* "if err != nil { return err }" after a step that leaves the assembler
\* ma: on success the rest of the function runs.
Then(ma, Rest(_)) == IF ma.err # "" THEN ma ELSE Rest(ma)

\* The callback of ForEach for one entry.
EntryCallback(ma, e, mode) ==
    Then(AssembleEntry(ma, EntryKey(e, mode)),
         LAMBDA m1 :
             IF mode.shape = "hamt" /\ ~e.deferred
             THEN [m1 EXCEPT !.err = "unexpected non-cbg.Deferred"]
             ELSE AssignEntry(m1, EntryKey(e, mode), EntryValue(ma.vt, e, mode)))

\* node.ForEach / list.ForEach from entry i on: the first error stops it.
RECURSIVE ForEach(_, _, _, _)
ForEach(blk, i, ma, mode) ==
    IF i > Len(blk.entries) THEN ma
    ELSE IF blk.failAt = i THEN [ma EXCEPT !.err = "structure"]
    ELSE Then(EntryCallback(ma, blk.entries[i], mode),
              LAMBDA m1 : ForEach(blk, i + 1, m1, mode))

\* The body shared by the decoders of one structure into one map.
DecodeMap(blk, proto, mode) ==
    IF LoadStructure(blk, mode.shape) # ""
    THEN [NewAssembler("Any") EXCEPT !.err = LoadStructure(blk, mode.shape)]
    ELSE Then(BeginMap(proto),
              LAMBDA mapper : Then(ForEach(blk, 1, mapper, mode), Finish))

\* builder.Build() of a map (list) builder of prototype proto whose
\* assembler is ma.
BuildMap(proto, ma) == [MapNode(ma.entries) EXCEPT !.tag = GoType(proto)]
BuildList(proto, la) == [ListNode(la.entries) EXCEPT !.tag = GoType(proto)]

transformStateRoot(blk, proto) ==
    DecodeMap(blk, proto, Mode("hamt", "string", "node", "LotusActors__Repr"))

transformInitActor(blk, proto) ==
    DecodeMap(blk, proto, Mode("hamt", "string", "int", ""))

transformMinerActorPreCommittedSectors(blk, proto) ==
    DecodeMap(blk, proto, Mode("hamt", "bigint", "node", "MinerV0SectorPreCommitOnChainInfo__Repr"))

transformMinerActorBitfieldHamt(blk, proto) ==
    DecodeMap(blk, proto, Mode("amt", "index", "bytes", ""))

transformMinerActorSectors(blk, proto) ==
    DecodeMap(blk, proto, Mode("amt", "index", "node", "MinerV0SectorOnChainInfo__Repr"))

transformMinerActorDeadlinePartitions(blk, proto) ==
    DecodeMap(blk, proto, Mode("amt", "index", "node", "MinerV0Partition__Repr"))

transformMinerActorDeadlinePartitionExpiry(blk, proto) ==
    DecodeMap(blk, proto, Mode("amt", "index", "node", "MinerV0ExpirationSet__Repr"))

\* The inner loop of the event queue: the array of one outer key into a
\* fresh builder of Map__PowerV0CronEvent__Repr.
EventQueueInner(arr) ==
    Then(BeginMap("Map__PowerV0CronEvent__Repr"),
         LAMBDA amtM :
             Then(ForEach(arr, 1, amtM, Mode("amt", "index", "node", "PowerV0CronEvent__Repr")),
                  Finish))

\* v.AssignNode(amt.Build()) for the inner assembler as the loop left it.
EventQueueAssign(m1, k, inner) ==
    IF inner.err # ""
    THEN [m1 EXCEPT !.err = inner.err, !.inner = Append(@, InnerUse(inner))]
    ELSE AssignEntry([m1 EXCEPT !.inner = Append(@, InnerUse(inner))], k,
                     AssignNode(m1.vt, BuildMap("Map__PowerV0CronEvent__Repr", inner)))

\* The callback of node.ForAll for one outer key.
EventQueueCallback(ma, e) ==
    Then(AssembleEntry(ma, BigIntString(e.k)),
         LAMBDA m1 : EventQueueAssign(m1, BigIntString(e.k), EventQueueInner(e.sub)))

\* Multimap.ForAll from entry i on: each value is the CID of an array, which
\* is loaded before the callback runs.
RECURSIVE ForAll(_, _, _)
ForAll(blk, i, ma) ==
    IF i > Len(blk.entries) THEN ma
    ELSE IF blk.failAt = i THEN [ma EXCEPT !.err = "structure"]
    ELSE IF blk.entries[i].sub.shape = "none" THEN [ma EXCEPT !.err = "structure"]
    ELSE IF LoadStructure(blk.entries[i].sub, "amt") # ""
         THEN [ma EXCEPT !.err = LoadStructure(blk.entries[i].sub, "amt")]
         ELSE Then(EventQueueCallback(ma, blk.entries[i]),
                   LAMBDA m1 : ForAll(blk, i + 1, m1))

transformPowerActorEventQueue(blk, proto) ==
    IF LoadStructure(blk, "hamt") # ""
    THEN [NewAssembler("Any") EXCEPT !.err = LoadStructure(blk, "hamt")]
    ELSE Then(BeginMap(proto), LAMBDA mapper : Then(ForAll(blk, 1, mapper), Finish))

transformPowerActorClaims(blk, proto) ==
    DecodeMap(blk, proto, Mode("hamt", "string", "node", "PowerV0Claim__Repr"))

transformVerifiedRegistryDataCaps(blk, proto) ==
    DecodeMap(blk, proto, Mode("hamt", "string", "bytes", ""))

transformMarketPendingProposals(blk, proto) ==
    DecodeMap(blk, proto, Mode("hamt", "string", "node", "MarketV0DealProposal__Repr"))

transformMarketProposals(blk, proto) ==
    DecodeMap(blk, proto, Mode("amt", "index", "node", "MarketV0DealProposal__Repr"))

transformMarketStates(blk, proto) ==
    DecodeMap(blk, proto, Mode("amt", "index", "node", "MarketV0DealState__Repr"))

transformMarketBalanceTable(blk, proto) ==
    DecodeMap(blk, proto, Mode("hamt", "string", "bytes", ""))

\* The callback of set.ForEach for one element: the key is parsed and
\* appended to the list.
SetCallback(la, d) ==
    IF ParseUIntKey(d).err # "" THEN [la EXCEPT !.err = ParseUIntKey(d).err]
    ELSE AssignValue(la, AssignInt(la.vt, ParseUIntKey(d).i))

\* set.ForEach from entry i on: the first error stops it.
RECURSIVE SetForEach(_, _, _)
SetForEach(set, i, la) ==
    IF i > Len(set.entries) THEN la
    ELSE IF set.failAt = i THEN [la EXCEPT !.err = "structure"]
    ELSE Then(SetCallback(la, set.entries[i].k),
              LAMBDA l1 : SetForEach(set, i + 1, l1))

\* The statement "set.ForEach(...)": the error it returns is not looked at
\* (broken keeps that there was one).
Discard(la) == [la EXCEPT !.err = "", !.broken = la.err # ""]

\* The list of one epoch, finished with the elements appended so far.
DealOpsInner(set) ==
    Then(BeginList("List__DealID__Repr"),
         LAMBDA amtL : Finish(Discard(SetForEach(set, 1, amtL))))

\* v.AssignNode(amt.Build()) for the list assembler as it was left.
DealOpsAssign(m1, k, inner) ==
    IF inner.err # ""
    THEN [m1 EXCEPT !.err = inner.err, !.inner = Append(@, InnerUse(inner))]
    ELSE AssignEntry([m1 EXCEPT !.inner = Append(@, InnerUse(inner))], k,
                     AssignNode(m1.vt, BuildList("List__DealID__Repr", inner)))

\* The callback of table.ForEach for one epoch.
DealOpsCallback(ma, e) ==
    IF LoadStructure(e.sub, "hamt") # "" THEN [ma EXCEPT !.err = LoadStructure(e.sub, "hamt")]
    ELSE Then(AssembleEntry(ma, BigIntString(e.k)),
              LAMBDA m1 : DealOpsAssign(m1, BigIntString(e.k), DealOpsInner(e.sub)))

\* table.ForEach(&value, ...) from entry i on: each value is unmarshaled
\* into a cbg.CborCid before the callback runs.
RECURSIVE DealOpsForEach(_, _, _)
DealOpsForEach(blk, i, ma) ==
    IF i > Len(blk.entries) THEN ma
    ELSE IF blk.failAt = i THEN [ma EXCEPT !.err = "structure"]
    ELSE IF blk.entries[i].sub.shape = "none" THEN [ma EXCEPT !.err = "structure"]
    ELSE Then(DealOpsCallback(ma, blk.entries[i]),
              LAMBDA m1 : DealOpsForEach(blk, i + 1, m1))

transformMarketDealOpsByEpoch(blk, proto) ==
    IF LoadStructure(blk, "hamt") # ""
    THEN [NewAssembler("Any") EXCEPT !.err = LoadStructure(blk, "hamt")]
    ELSE Then(BeginMap(proto), LAMBDA mapper : Then(DealOpsForEach(blk, 1, mapper), Finish))

transformMultisigPending(blk, proto) ==
    DecodeMap(blk, proto, Mode("hamt", "bigint", "node", "MultisigV0Transaction__Repr"))

transformPaymentChannelLaneStates(blk, proto) ==
    DecodeMap(blk, proto, Mode("amt", "index", "node", "PaychV0LaneState__Repr"))

\* complexLoader(ctx, c, store, into): the call of a decoder by its name.
CallLoader(name, blk, proto) ==
    CASE name = "transformStateRoot" -> transformStateRoot(blk, proto)
      [] name = "transformInitActor" -> transformInitActor(blk, proto)
      [] name = "transformMinerActorPreCommittedSectors" -> transformMinerActorPreCommittedSectors(blk, proto)
      [] name = "transformMinerActorBitfieldHamt" -> transformMinerActorBitfieldHamt(blk, proto)
      [] name = "transformMinerActorSectors" -> transformMinerActorSectors(blk, proto)
      [] name = "transformMinerActorDeadlinePartitions" -> transformMinerActorDeadlinePartitions(blk, proto)
      [] name = "transformMinerActorDeadlinePartitionExpiry" -> transformMinerActorDeadlinePartitionExpiry(blk, proto)
      [] name = "transformPowerActorEventQueue" -> transformPowerActorEventQueue(blk, proto)
      [] name = "transformPowerActorClaims" -> transformPowerActorClaims(blk, proto)
      [] name = "transformVerifiedRegistryDataCaps" -> transformVerifiedRegistryDataCaps(blk, proto)
      [] name = "transformMarketPendingProposals" -> transformMarketPendingProposals(blk, proto)
      [] name = "transformMarketProposals" -> transformMarketProposals(blk, proto)
      [] name = "transformMarketStates" -> transformMarketStates(blk, proto)
      [] name = "transformMarketBalanceTable" -> transformMarketBalanceTable(blk, proto)
      [] name = "transformMarketDealOpsByEpoch" -> transformMarketDealOpsByEpoch(blk, proto)
      [] name = "transformMultisigPending" -> transformMultisigPending(blk, proto)
      [] name = "transformPaymentChannelLaneStates" -> transformPaymentChannelLaneStates(blk, proto)

(***************************************************************************)
(* Load and Transform.  A builder is [proto, node, built]: built tells a   *)
(* value has been assembled (Build panics otherwise).                      *)
(***************************************************************************)
\* proto.NewBuilder()
NewBuilder(proto) == [proto |-> proto, node |-> AbsentNode, built |-> FALSE]

\* LoadFlat decoding with an untyped builder instead of into: the item is
\* kept as it is read, whatever the prototype's kind.
LoadFlat_AnyBuilder(blk, into) ==
    IF blk.shape = "missing" THEN [err |-> "not found", into |-> into]
    ELSE IF blk.shape # "flat" THEN [err |-> "decode", into |-> into]
    ELSE LET it == CborItem(blk.raw, 1) IN
         IF ~it.ok THEN [err |-> "decode", into |-> into]
         ELSE [err |-> "", into |-> [into EXCEPT !.node = it.node, !.built = TRUE]]

\* The flat branch of Load: store.Get(c), then dagcbor.Decoder(into, data).
LoadFlat(blk, into) ==
    IF blk.shape = "missing" THEN [err |-> "not found", into |-> into]
    ELSE IF blk.shape # "flat" THEN [err |-> "decode", into |-> into]
    ELSE LET d == DagCborDecode(into.proto, blk.raw) IN
         IF d.err # "" THEN [err |-> d.err, into |-> into]
         ELSE [err |-> "", into |-> [into EXCEPT !.node = d.node, !.built = TRUE]]

\* The builder after its structure decoder returned with the assembler ma.
Assembled(into, ma) ==
    IF ma.err # "" THEN [err |-> ma.err, into |-> into]
    ELSE [err |-> "",
          into |-> [into EXCEPT !.node = BuildMap(into.proto, ma), !.built = ma.done]]

\* What a call of Load leaves: its error, the builder, the structure decoder
\* it called ("" for none), how many times Load itself called store.Get, and
\* the map assembler the decoder worked on.
Loaded(l, loader, gets, ma) ==
    [err |-> l.err, into |-> l.into, loader |-> loader, gets |-> gets, ma |-> ma]

\* No call of Load.
NoLoad == Loaded([err |-> "", into |-> NewBuilder("")], "", 0, NewAssembler("Any"))

\* What Load leaves when the decoder loader returned with the assembler ma.
LoadedBy(into, loader, ma) == Loaded(Assembled(into, ma), loader, 0, ma)

\* The complex branch of Load: return complexLoader(ctx, c, store, into).
LoadComplex(blk, into, loader) ==
    LoadedBy(into, loader, CallLoader(loader, blk, into.proto))

\* Load where the block is read and flat-decoded whatever the prototype.
Load_AlwaysFlat(blk, into) == Loaded(LoadFlat(blk, into), "", 1, NewAssembler("Any"))

\* Load(ctx, c, store, into): blk is what the store holds under c.
Load(blk, into) ==
    IF into.proto \in ComplexPrototypes
    THEN LoadComplex(blk, into, ComplexLoaderOf(into.proto))
    ELSE Loaded(LoadFlat(blk, into), "", 1, NewAssembler("Any"))

\* The result of Transform: the node (AbsentNode for nil), the error ("" for
\* nil), and whether the call panicked.
Result(node, err, panic) == [node |-> node, err |-> err, panic |-> panic]

\* assembler.Build()
Build(nb) ==
    IF ~nb.built THEN Result(AbsentNode, "", TRUE) ELSE Result(nb.node, "", FALSE)

\* The end of Transform: l is what Load returned and left in the builder.
Return(l) == IF l.err # "" THEN Result(AbsentNode, l.err, FALSE) ELSE Build(l.into)

\* Transform without the "!ok" test of the registry lookup: an unregistered
\* key yields a nil prototype, and NewBuilder on it panics.
Transform_NoOkCheck(blk, as) ==
    IF ResolveType(as) \notin RegisteredKeys THEN Result(AbsentNode, "", TRUE)
    ELSE Return(Load(blk, NewBuilder(PrototypeOf(ResolveType(as)))))

\* Transform(ctx, c, store, as): blk is what the store holds under c.
Transform(blk, as) ==
    IF ResolveType(as) \notin RegisteredKeys THEN Result(AbsentNode, "unknown type", FALSE)
    ELSE Return(Load(blk, NewBuilder(PrototypeOf(ResolveType(as)))))

(***************************************************************************)
(* The switch-based Transform (part_002): ResolveType without the '/'      *)
(* replacement and with four aliases, a switch from the key to a decoder   *)
(* that builds its own map, then store.Get and a second switch from the    *)
(* key to the prototype of a flat document.  The decoders have the bodies  *)
(* of the registry version, with the builder made inside; the decoders of  *)
(* the state root and of the init address map do not look at the error of  *)
(* node.ForEach.                                                           *)
(***************************************************************************)
LotusTypeAliases_Switch ==
    { <<(<<"tipset", ".", "ParentStateRoot">>), LotusTypeStateroot>>,
      <<(<<"initActor", ".", "AddressMap">>), InitActorAddresses>>,
      <<(<<"storagePowerActor", ".", "CronEventQueue">>), StoragePowerActorCronEventQueue>>,
      <<(<<"storagePowerActor", ".", "Claims">>), StoragePowerActorClaims>> }

\* ResolveType of part_002.
ResolveType_Switch(as) ==
    IF \E a \in LotusTypeAliases_Switch : a[1] = ReplaceAllRe2(ReplaceAllRe(as, 1), 1)
    THEN (CHOOSE a \in LotusTypeAliases_Switch : a[1] = ReplaceAllRe2(ReplaceAllRe(as, 1), 1))[2]
    ELSE ReplaceAllRe2(ReplaceAllRe(as, 1), 1)

\* The first switch of Transform: key to the decoder it returns from.
SwitchLoaders ==
    { <<LotusTypeStateroot, "transformStateRoot">>,
      <<InitActorAddresses, "transformInitActor">>,
      <<StorageMinerActorPreCommittedSectors, "transformMinerActorPreCommittedSectors">>,
      <<StorageMinerActorDeadlinePartitionEarly, "transformMinerActorPreCommittedSectorsExpiry">>,
      <<StorageMinerActorPreCommittedSectorsExpiry, "transformMinerActorPreCommittedSectorsExpiry">>,
      <<StorageMinerActorSectors, "transformMinerActorSectors">>,
      <<StorageMinerActorDeadlinePartitions, "transformMinerActorDeadlinePartitions">>,
      <<StorageMinerActorDeadlinePartitionExpiry, "transformMinerActorDeadlinePartitionExpiry">>,
      <<StorageMinerActorDeadlineExpiry, "transformMinerActorDeadlineExpiry">>,
      <<StoragePowerActorCronEventQueue, "transformPowerActorEventQueue">>,
      <<StoragePowerActorClaims, "transformPowerActorClaims">>,
      <<MarketActorProposals, "transformMarketProposals">>,
      <<MarketActorStates, "transformMarketStates">>,
      <<MarketActorPendingProposals, "transformMarketPendingProposals">>,
      <<MarketActorEscrowTable, "transformMarketBalanceTable">>,
      <<MarketActorLockedTable, "transformMarketBalanceTable">>,
      <<MarketActorDealOpsByEpoch, "transformMarketDealOpsByEpoch">>,
      <<MultisigActorPending, "transformMultisigPending">>,
      <<VerifiedRegistryActorVerifiers, "transformVerifiedRegistryDataCaps">>,
      <<VerifiedRegistryActorVerifiedClients, "transformVerifiedRegistryDataCaps">>,
      <<PaymentChannelActorLaneStates, "transformPaymentChannelLaneStates">> }

\* The second switch of Transform: key to the prototype of the flat document.
SwitchPrototypes ==
    { <<LotusTypeTipset, "LotusBlockHeader__Repr">>,
      <<AccountActorState, "AccountV0State__Repr">>,
      <<CronActorState, "CronV0State__Repr">>,
      <<InitActorState, "InitV0State__Repr">>,
      <<MarketActorState, "MarketV0State__Repr">>,
      <<MultisigActorState, "MultisigV0State__Repr">>,
      <<StorageMinerActorState, "MinerV0State__Repr">>,
      <<StorageMinerActorInfo, "MinerV0Info__Repr">>,
      <<StorageMinerActorVestingFunds, "MinerV0VestingFunds__Repr">>,
      <<StorageMinerActorAllocatedSectors, "BitField__Repr">>,
      <<StorageMinerActorDeadlines, "MinerV0Deadlines__Repr">>,
      <<StorageMinerActorDeadline, "MinerV0Deadline__Repr">>,
      <<StoragePowerActorState, "PowerV0State__Repr">>,
      <<RewardActorState, "RewardV0State__Repr">>,
      <<VerifiedRegistryActorState, "VerifregV0State__Repr">>,
      <<PaymentChannelActorState, "PaychV0State__Repr">> }

\* The builder each decoder of part_002 makes for the map it returns.
SwitchBuilders ==
    { <<"transformStateRoot", "Map__LotusActors__Repr">>,
      <<"transformInitActor", "Map__ActorID__Repr">>,
      <<"transformMinerActorPreCommittedSectors", "Map__SectorPreCommitOnChainInfo__Repr">>,
      <<"transformMinerActorPreCommittedSectorsExpiry", "Map__BitField__Repr">>,
      <<"transformMinerActorDeadlineExpiry", "Map__BitField__Repr">>,
      <<"transformMinerActorSectors", "Map__SectorOnChainInfo__Repr">>,
      <<"transformMinerActorDeadlinePartitions", "Map__MinerV0Partition__Repr">>,
      <<"transformMinerActorDeadlinePartitionExpiry", "Map__MinerV0ExpirationSet__Repr">>,
      <<"transformPowerActorEventQueue", "Multimap__PowerV0CronEvent__Repr">>,
      <<"transformPowerActorClaims", "Map__PowerV0Claim__Repr">>,
      <<"transformVerifiedRegistryDataCaps", "Map__DataCap__Repr">>,
      <<"transformMarketPendingProposals", "Map__MarketV0DealProposal__Repr">>,
      <<"transformMarketProposals", "Map__MarketV0RawDealProposal__Repr">>,
      <<"transformMarketStates", "Map__MarketV0DealState__Repr">>,
      <<"transformMarketBalanceTable", "Map__BalanceTable__Repr">>,
      <<"transformMarketDealOpsByEpoch", "Map__List__DealID__Repr">>,
      <<"transformMultisigPending", "Map__MultisigV0Transaction__Repr">>,
      <<"transformPaymentChannelLaneStates", "Map__PaychV0LaneState__Repr">> }

SwitchBuilderOf(name) == (CHOOSE e \in SwitchBuilders : e[1] = name)[2]

\* mapper.Finish() where the iteration may have stopped inside an entry: the
\* generated assembler panics when an entry is open.
Finish_Unchecked(ma) == IF ma.mid THEN [ma EXCEPT !.err = "panic"] ELSE Finish(ma)

\* The body of a decoder that calls node.ForEach as a statement.
DecodeMap_Unchecked(blk, proto, mode) ==
    IF LoadStructure(blk, mode.shape) # ""
    THEN [NewAssembler("Any") EXCEPT !.err = LoadStructure(blk, mode.shape)]
    ELSE Then(BeginMap(proto),
              LAMBDA mapper : Finish_Unchecked(Discard(ForEach(blk, 1, mapper, mode))))

\* The call of a decoder of part_002 by its name.
CallSwitchLoader(name, blk) ==
    CASE name = "transformStateRoot" ->
            DecodeMap_Unchecked(blk, SwitchBuilderOf(name),
                                Mode("hamt", "string", "node", "LotusActors__Repr"))
      [] name = "transformInitActor" ->
            DecodeMap_Unchecked(blk, SwitchBuilderOf(name), Mode("hamt", "string", "int", ""))
      [] name \in {"transformMinerActorPreCommittedSectorsExpiry",
                   "transformMinerActorDeadlineExpiry"} ->
            transformMinerActorBitfieldHamt(blk, SwitchBuilderOf(name))
      [] OTHER -> CallLoader(name, blk, SwitchBuilderOf(name))

\* Transform of part_002 up to Build: what it leaves, in the terms of Load.
LoadSwitch(blk, key) ==
    IF \E e \in SwitchLoaders : e[1] = key
    THEN LoadedBy(NewBuilder(SwitchBuilderOf((CHOOSE e \in SwitchLoaders : e[1] = key)[2])),
                  (CHOOSE e \in SwitchLoaders : e[1] = key)[2],
                  CallSwitchLoader((CHOOSE e \in SwitchLoaders : e[1] = key)[2], blk))
    ELSE IF blk.shape = "missing"
    THEN Loaded([err |-> "not found", into |-> NewBuilder("")], "", 1, NewAssembler("Any"))
    ELSE IF \E e \in SwitchPrototypes : e[1] = key
    THEN Loaded(LoadFlat(blk, NewBuilder((CHOOSE e \in SwitchPrototypes : e[1] = key)[2])),
                "", 1, NewAssembler("Any"))
    ELSE Loaded([err |-> "unknown type", into |-> NewBuilder("")], "", 1, NewAssembler("Any"))

\* Transform(ctx, c, store, as) of part_002.
TransformSwitch(blk, as) ==
    IF LoadSwitch(blk, ResolveType_Switch(as)).err = "panic"
    THEN Result(AbsentNode, "", TRUE)
    ELSE Return(LoadSwitch(blk, ResolveType_Switch(as)))

(***************************************************************************)
(* The marshaler's callers: one marshal call on a node, through            *)
(* MarshalRecursive on a DagMarshaler or through Marshal.                  *)
(***************************************************************************)
\* The scalar nodes and links that appear as values.
\* The bit sets the bitfield nodes hold: the empty set, a single bit, a set
\* whose compacted form is two bytes and one whose compacted form is four.
BitSets == { {}, {0}, {0, 2, 5}, {1, 4, 7, 10} }

\* The bytes of a bitfield node that holds the set S: the compacted form
\* itself ("direct") or the CBOR byte string around it ("cbor").
BitFieldBytes(S, enc) == IF enc = "cbor" THEN CborWrap(RleEncode(S)) ELSE RleEncode(S)

BitFieldInputs ==
    { [bits |-> S, enc |-> enc, node |-> BytesNode("BitField", BitFieldBytes(S, enc))] :
        S \in BitSets, enc \in {"direct", "cbor"} }

\* The run-length encoding of the set of the odd numbers below eight times
\* MaxRleBytes: the set bits alternate, every run has length one and takes
\* one bit, so the encoding is one byte above the size MarshalCBOR writes.
LongRle == [i \in 1..(MaxRleBytes + 1) |-> IF i = 1 THEN 252 ELSE 255]

Leaves ==
    { n.node : n \in BitFieldInputs } \cup { BytesNode("BitField", LongRle) } \cup
    { AbsentNode, NullNode, BoolNode(TRUE), IntNode(5), FloatNode(2),
      StringNode("", StrHi), StringNode("RawAddress", <<0, 5>>),
      StringNode("RawAddress", <<9>>), StringNode("CidString", CidA),
      StringNode("CidString", <<0>>),
      BytesNode("", <<1, 2, 3>>), BytesNode("Address", <<0, 7>>),
      BytesNode("Address", <<7>>), BytesNode("BigInt", <<48, 57>>),
      BytesNode("BigInt", <<0, 48, 57>>), BytesNode("BigInt", <<>>),
      BytesNode("BigInt", <<0>>), BytesNode("BigInt", <<1, 0>>),
      BytesNode("BitField", <<4, 1>>), BytesNode("BitField", <<65, 4>>),
      BytesNode("BitField", <<3>>),
      LinkNode(CidA), LinkNode(CidB), LinkNode(CidC), OtherLinkNode(CidA),
      OtherKindNode }

\* The values and keys the generated containers are filled with.
KidValues ==
    { NullNode, IntNode(5), AbsentNode, LinkNode(CidA), LinkNode(CidC),
      BytesNode("BitField", <<4, 1>>) }

KidKeys == { StringNode("", StrA), StringNode("RawAddress", <<0, 5>>) }

Lists == { ListNode(k) : k \in SeqsUpTo({ Elem(v) : v \in KidValues }, MaxKids) }

Maps ==
    { MapNode(k) :
        k \in SeqsUpTo({ Entry(key, v) : key \in KidKeys, v \in KidValues }, MaxKids) }

\* Deeper nodes, and iteration errors.
Nested ==
    { ListNode(<<Elem(MapNode(<<Entry(StringNode("", StrA), ListNode(<<Elem(LinkNode(CidA))>>))>>)),
                 Elem(LinkNode(CidB))>>),
      MapNode(<<Entry(StringNode("", StrHi), LinkNode(CidB)),
                Entry(StringNode("CidString", <<0>>), NullNode)>>),
      MapNode(<<Entry(StringNode("", StrA), MapNode(<<Entry(StringNode("", StrA), OtherLinkNode(CidA))>>))>>),
      MapNode(<<Entry(StringNode("", StrA), NullNode), BadEntry(StringNode("", StrHi), NullNode)>>),
      ListNode(<<Elem(LinkNode(CidA)), Elem(OtherLinkNode(CidC)), Elem(NullNode)>>),
      ListNode(<<Elem(BoolNode(FALSE)), BadElem(NullNode)>>),
      ListNode(<<Elem(ListNode(<<Elem(IntNode(1)), Elem(OtherKindNode)>>))>>) }

MarshalNodes == Leaves \cup Lists \cup Maps \cup Nested

MarshalPaths == { <<>>, <<StrHi>> }

ResolverIdle ==
    /\ rpath = <<>>
    /\ rkey = <<>>
    /\ rkey2 = <<>>
    /\ rpc = "idle"

\* Transform's variables while another component runs.
TransformIdle ==
    /\ tas = <<>>
    /\ tblock = MissingBlock
    /\ tres = Result(AbsentNode, "", FALSE)
    /\ tload = NoLoad
    /\ tpc = "idle"

\* The tables as the package initialises them.
Registries ==
    [aliases |-> LotusTypeAliases, prototypes |-> LotusPrototypes, loaders |-> complexLoaders]

\* The concurrent calls' variables while another component runs.
ConcurrentIdle ==
    /\ ctab = Registries
    /\ ccall = <<>>

\* The call stack's variables while another component runs.
StackIdle ==
    /\ knode = AbsentNode
    /\ kloader = "nil"
    /\ kd = <<>>
    /\ kstack = <<>>
    /\ kres = SinkState(0)
    /\ ksteps = 0
    /\ kpc = "idle"

\* The Bytes builder's variables while another component runs.
BuilderIdle ==
    /\ bheap = <<>>
    /\ bw = 0
    /\ bm = "Absent"
    /\ bout = <<>>
    /\ blast = ""
    /\ bops = <<>>

InitMarshal ==
    /\ StackIdle
    /\ ConcurrentIdle
    /\ BuilderIdle
    /\ ResolverIdle
    /\ TransformIdle
    /\ mnode \in MarshalNodes
    /\ mloader \in Loaders
    /\ mpath \in MarshalPaths
    /\ mfailAt \in 0..MaxSinkFail
    /\ mvia = ""
    /\ mres = SinkState(mfailAt)

\* (&DagMarshaler{Loader: mloader, Path: mpath}).MarshalRecursive(mnode, sink)
CallMarshalRecursive ==
    /\ mvia = ""
    /\ mvia' = "MarshalRecursive"
    /\ mres' = MarshalRecursive([loader |-> mloader, path |-> mpath], mnode, mres)
    /\ UNCHANGED <<mnode, mloader, mpath, mfailAt, rvars, tvars, cvars, bvars, kvars>>

\* Marshal(mnode, sink)
CallMarshal ==
    /\ mvia = ""
    /\ mvia' = "Marshal"
    /\ mres' = Marshal(mnode, mres)
    /\ UNCHANGED <<mnode, mloader, mpath, mfailAt, rvars, tvars, cvars, bvars, kvars>>

NextMarshal == CallMarshalRecursive \/ CallMarshal

SpecMarshal == InitMarshal /\ [][NextMarshal]_vars

(***************************************************************************)
(* The resolver's callers: a path is resolved, and a resolved key may be   *)
(* resolved again.                                                         *)
(***************************************************************************)
NamedPaths ==
    AliasKeys \cup
    { <<"bogus", ".", "path">>, <<"systemActor">>,
      <<"a", ".", "1", ".", "2", ".", "b">>,
      <<"[", "[", "1", "]", "2", "]">>,
      <<"storageMinerActor", "/", "Deadlines", "/", "Due", "[", "1", "]", "/", "Partitions">>,
      <<"storageMinerActor", ".", "Deadlines", ".", "1", ".", "Due">> }

ResolverInputs == SeqsUpTo(PathAlphabet, MaxPathLen) \cup NamedPaths

\* The marshaler's variables while the resolver runs.
MarshalIdle ==
    /\ mnode = AbsentNode
    /\ mloader = "nil"
    /\ mpath = <<>>
    /\ mfailAt = 0
    /\ mvia = ""
    /\ mres = SinkState(0)

InitResolve ==
    /\ StackIdle
    /\ ConcurrentIdle
    /\ BuilderIdle
    /\ MarshalIdle
    /\ TransformIdle
    /\ rpath \in ResolverInputs
    /\ rkey = <<>>
    /\ rkey2 = <<>>
    /\ rpc = "start"

Resolve ==
    /\ rpc = "start"
    /\ rkey' = ResolveType(rpath)
    /\ rpc' = "once"
    /\ UNCHANGED <<rpath, rkey2, mvars, tvars, cvars, bvars, kvars>>

ResolveAgain ==
    /\ rpc = "once"
    /\ rkey2' = ResolveType(rkey)
    /\ rpc' = "twice"
    /\ UNCHANGED <<rpath, rkey, mvars, tvars, cvars, bvars, kvars>>

NextResolve == Resolve \/ ResolveAgain

SpecResolve == InitResolve /\ [][NextResolve]_vars

(***************************************************************************)
(* Transform's callers: a type path and a stored block are handed to       *)
(* Transform, and a node it returns is marshaled.                          *)
(***************************************************************************)
\* Raw keys of HAMT entries, and the raw bytes of values: an integer, a
\* two-element array (a tuple struct), and bytes that are not CBOR.
HamtKeys == { <<>>, <<0>>, <<1>>, <<0, 1>> }
OuterKeys == { <<0>>, <<1>>, <<0, 1>> }
RawInt == <<5>>
RawTuple == <<130, 1, 2>>
RawBad == <<255>>
ValueRaws == { RawInt, RawTuple, RawBad }

\* The sequences of at most n pairwise different elements of S.
DistinctSeqs(S, n) ==
    { q \in SeqsUpTo(S, n) : \A i, j \in 1..Len(q) : i # j => q[i] # q[j] }

\* A HAMT of plain values: keys ks, values vs, failing at f.
HamtOf(ks, vs, f) == Hamt([i \in 1..Len(ks) |-> HamtEntry(ks[i], vs[i])], f)

\* An AMT of values vs at the indices 0, step, 2*step, ..., failing at f.
AmtOf(vs, step, f) == Amt([i \in 1..Len(vs) |-> AmtEntry(step * (i - 1), vs[i])], f)

\* A set (a HAMT whose keys are the elements) of keys ks, failing at f.
SetOf(ks, f) == Hamt([i \in 1..Len(ks) |-> HamtEntry(ks[i], <<246>>)], f)

\* The blocks that hold no structure: no block, and flat documents.
FlatBlocks == { MissingBlock } \cup { FlatBlock(r) : r \in ValueRaws \cup { <<65, 7>> } }

\* The arrays and sets a nested structure points at: n elements, all good,
\* or the last one bad, or the iteration failing at the last one.
SubAmts ==
    UNION { { AmtOf([i \in 1..n |-> RawTuple], 1, f) : f \in {0, n} } : n \in 0..MaxElems }
        \cup { AmtOf([i \in 1..n |-> IF i = n THEN RawBad ELSE RawTuple], 1, 0) : n \in 1..MaxElems }

SubSets ==
    UNION { { SetOf([i \in 1..n |-> <<i>>], f) : f \in {0, n} } : n \in 0..MaxElems }
        \cup { SetOf([i \in 1..n |-> IF i = n THEN <<128>> ELSE <<i>>], 0) : n \in 1..MaxElems }

\* A HAMT whose values are CIDs: keys ks, the structures under the CIDs
\* subs, failing at f.
CidHamtOf(ks, subs, f) == Hamt([i \in 1..Len(ks) |-> HamtCidEntry(ks[i], subs[i])], f)

TransformPaths ==
    RegisteredKeys \cup AliasKeys \cup
    { <<"bogus", ".", "path">>, <<"systemActor">>, <<>>,
      <<"storageMinerActor", "/", "Deadlines", "/", "Due", "[", "1", "]", "/", "Partitions">>,
      <<"storageMinerActor", ".", "Deadlines", ".", "1", ".", "Due">>,
      <<"a", ".", "1", ".", "2", ".", "b">> }

NestedPaths ==
    { StoragePowerActorCronEventQueue, MarketActorDealOpsByEpoch,
      <<"storagePowerActor", ".", "CronEventQueue">>,
      <<"storagePowerActor", "/", "CronEventQueue">> }

InitTransform ==
    /\ StackIdle
    /\ ConcurrentIdle
    /\ BuilderIdle
    /\ ResolverIdle
    /\ MarshalIdle
    /\ \/ /\ tas \in TransformPaths
          /\ \/ tblock \in FlatBlocks
             \/ \E ks \in DistinctSeqs(HamtKeys, MaxEntries) :
                    \E vs \in [1..Len(ks) -> ValueRaws], f \in {0, Len(ks)} :
                        tblock = HamtOf(ks, vs, f)
             \/ \E vs \in SeqsUpTo(ValueRaws, MaxElems) :
                    \E step \in {1, 2}, f \in {0, Len(vs)} :
                        tblock = AmtOf(vs, step, f)
       \/ /\ tas \in NestedPaths
          /\ \E ks \in DistinctSeqs(OuterKeys, MaxEntries) :
                 \E f \in {0, Len(ks)} :
                     \/ \E subs \in [1..Len(ks) -> SubAmts \cup { MissingBlock }] :
                            tblock = CidHamtOf(ks, subs, f)
                     \/ \E subs \in [1..Len(ks) -> SubSets \cup { MissingBlock }] :
                            tblock = CidHamtOf(ks, subs, f)
    /\ tres = Result(AbsentNode, "", FALSE)
    /\ tload = NoLoad
    /\ tpc = "start"

\* Transform(ctx, c, store, tas); tload is what its call of Load left.
CallTransform ==
    /\ tpc = "start"
    /\ tres' = Transform(tblock, tas)
    /\ tload' = IF ResolveType(tas) \in RegisteredKeys
                THEN Load(tblock, NewBuilder(PrototypeOf(ResolveType(tas))))
                ELSE NoLoad
    /\ tpc' = "done"
    /\ UNCHANGED <<tas, tblock, rvars, mvars, cvars, bvars, kvars>>

\* Marshal(node, sink) of the node Transform returned
MarshalResult ==
    /\ tpc = "done"
    /\ tres.err = ""
    /\ ~tres.panic
    /\ mnode' = tres.node
    /\ mvia' = "Marshal"
    /\ mres' = Marshal(tres.node, mres)
    /\ tpc' = "marshaled"
    /\ UNCHANGED <<tas, tblock, tres, tload, mloader, mpath, mfailAt, rvars, cvars, bvars, kvars>>

NextTransform == CallTransform \/ MarshalResult

SpecTransform == InitTransform /\ [][NextTransform]_vars

(***************************************************************************)
(* The switch-based Transform on the same type paths and on blocks of      *)
(* every shape.                                                            *)
(***************************************************************************)
MaxSwitchEntries == 1

InitSwitch ==
    /\ StackIdle
    /\ ConcurrentIdle
    /\ BuilderIdle
    /\ ResolverIdle
    /\ MarshalIdle
    /\ tas \in TransformPaths \cup NestedPaths
    /\ \/ tblock \in FlatBlocks
       \/ \E ks \in DistinctSeqs(HamtKeys, MaxSwitchEntries) :
              \E vs \in [1..Len(ks) -> ValueRaws], f \in {0, Len(ks)} :
                  tblock = HamtOf(ks, vs, f)
       \/ \E vs \in SeqsUpTo(ValueRaws, MaxSwitchEntries) :
              \E f \in {0, Len(vs)} : tblock = AmtOf(vs, 1, f)
       \/ \E ks \in DistinctSeqs(OuterKeys, MaxSwitchEntries) :
              \E subs \in [1..Len(ks) -> SubAmts \cup SubSets \cup { MissingBlock }] :
                  tblock = CidHamtOf(ks, subs, 0)
    /\ tres = Result(AbsentNode, "", FALSE)
    /\ tload = NoLoad
    /\ tpc = "switch"

\* Transform(ctx, c, store, tas) of part_002; tload is what it did before
\* Build.
CallTransformSwitch ==
    /\ tpc = "switch"
    /\ tres' = TransformSwitch(tblock, tas)
    /\ tload' = LoadSwitch(tblock, ResolveType_Switch(tas))
    /\ tpc' = "switched"
    /\ UNCHANGED <<tas, tblock, rvars, mvars, cvars, bvars, kvars>>

NextSwitch == CallTransformSwitch

SpecSwitch == InitSwitch /\ [][NextSwitch]_vars

(***************************************************************************)
(* Concurrent Transform calls (part_003).  Each call is a goroutine that   *)
(* resolves its type path against LotusTypeAliases, looks the key up in    *)
(* LotusPrototypes, and loads through complexLoaders; the three tables are *)
(* package-level maps every call shares.  A call is                        *)
(* [as, blk, pc, key, proto, res].                                         *)
(***************************************************************************)
MaxCalls == 2

\* m[k] of a Go map kept as a set of pairs: the value and the ok flag.
Lookup(table, k, none) ==
    IF \E e \in table : e[1] = k
    THEN [ok |-> TRUE, v |-> (CHOOSE e \in table : e[1] = k)[2]]
    ELSE [ok |-> FALSE, v |-> none]

\* ResolveType against the alias table as the call finds it.
ResolveTypeIn(aliases, as) ==
    IF Lookup(aliases, ReplaceAllRe2(ReplaceAllRe(ReplaceSlashes(as), 1), 1), <<>>).ok
    THEN Lookup(aliases, ReplaceAllRe2(ReplaceAllRe(ReplaceSlashes(as), 1), 1), <<>>).v
    ELSE ReplaceAllRe2(ReplaceAllRe(ReplaceSlashes(as), 1), 1)

\* The alias table after a ResolveType that remembers what it resolved.
AliasesAfterResolve_Memo(aliases, as) ==
    aliases \cup { <<ReplaceSlashes(as), ResolveTypeIn(aliases, as)>> }

\* The alias table after ResolveType: the map is only indexed.
AliasesAfterResolve(aliases, as) == aliases

\* Load against the decoder table as the call finds it.
LoadIn(loaders, blk, into) ==
    IF Lookup(loaders, into.proto, "").ok
    THEN LoadComplex(blk, into, Lookup(loaders, into.proto, "").v)
    ELSE Loaded(LoadFlat(blk, into), "", 1, NewAssembler("Any"))

ConcurrentPaths ==
    { LotusTypeTipset, <<"tipset", ".", "ParentStateRoot">>,
      <<"storagePowerActor", "/", "Claims">>, <<"bogus", ".", "path">> }

ConcurrentBlocks ==
    { MissingBlock, FlatBlock(RawTuple), HamtOf(<<<<0, 1>>>>, <<RawTuple>>, 0) }

NewCall(as, blk) ==
    [as |-> as, blk |-> blk, pc |-> "start", key |-> <<>>, proto |-> "",
     res |-> Result(AbsentNode, "", FALSE)]

InitConcurrent ==
    /\ StackIdle
    /\ ResolverIdle
    /\ MarshalIdle
    /\ TransformIdle
    /\ BuilderIdle
    /\ ctab = Registries
    /\ ccall \in [1..MaxCalls -> { NewCall(as, blk) : as \in ConcurrentPaths,
                                                      blk \in ConcurrentBlocks }]

\* ResolveType(as) of call g
CallResolve(g) ==
    /\ ccall[g].pc = "start"
    /\ ccall' = [ccall EXCEPT ![g].key = ResolveTypeIn(ctab.aliases, ccall[g].as),
                              ![g].pc = "resolved"]
    /\ ctab' = [ctab EXCEPT !.aliases = AliasesAfterResolve(@, ccall[g].as)]
    /\ UNCHANGED <<rvars, mvars, tvars, bvars, kvars>>

\* proto, ok := LotusPrototypes[key] of call g, and the unknown-type return
CallLookup(g) ==
    /\ ccall[g].pc = "resolved"
    /\ ccall' = IF Lookup(ctab.prototypes, ccall[g].key, "").ok
                THEN [ccall EXCEPT ![g].proto = Lookup(ctab.prototypes, ccall[g].key, "").v,
                                   ![g].pc = "looked"]
                ELSE [ccall EXCEPT ![g].res = Result(AbsentNode, "unknown type", FALSE),
                                   ![g].pc = "done"]
    /\ UNCHANGED <<ctab, rvars, mvars, tvars, bvars, kvars>>

\* proto.NewBuilder(), Load and the return of call g
CallLoad(g) ==
    /\ ccall[g].pc = "looked"
    /\ ccall' = [ccall EXCEPT
                    ![g].res = Return(LoadIn(ctab.loaders, ccall[g].blk,
                                             NewBuilder(ccall[g].proto))),
                    ![g].pc = "done"]
    /\ UNCHANGED <<ctab, rvars, mvars, tvars, bvars, kvars>>

NextConcurrent ==
    \E g \in 1..MaxCalls : CallResolve(g) \/ CallLookup(g) \/ CallLoad(g)

SpecConcurrent == InitConcurrent /\ [][NextConcurrent]_vars

(***************************************************************************)
(* The generated builder of the Bytes type (part_001).  A builder is       *)
(* [heap, w, m]: the _Bytes values allocated so far (each the byte string  *)
(* x), the address w points to and the Maybe m points to.  An operation    *)
(* yields the builder after it and its outcome: "ok" (nil), "error",       *)
(* "panic", or "node" (Build returned nb.w).                               *)
(***************************************************************************)
MaxOps == 4

Did(nb, out) == [nb |-> nb, out |-> out]

\* func (nb *_Bytes__Builder) Reset(): a new _Bytes and a new Maybe
BytesBuilder_Reset(nb) ==
    Did([heap |-> Append(nb.heap, <<>>), w |-> Len(nb.heap) + 1, m |-> "Absent"], "ok")

\* _Bytes__Prototype.NewBuilder(): a builder after Reset
BytesPrototype_NewBuilder == BytesBuilder_Reset([heap |-> <<>>, w |-> 0, m |-> "Absent"]).nb

\* Build that returns nb.w whatever the Maybe holds.
BytesBuilder_Build_Unchecked(nb) == Did(nb, "node")

\* func (nb *_Bytes__Builder) Build()
BytesBuilder_Build(nb) == IF nb.m # "Value" THEN Did(nb, "panic") ELSE Did(nb, "node")

\* AssignNull: a builder's Maybe is never allowNull, so the mixin's error
\* on an unfinished assembler and the panic on a finished one
BytesAssembler_AssignNull(nb) ==
    IF nb.m = "Absent" THEN Did(nb, "error") ELSE Did(nb, "panic")

\* AssignBool, AssignInt, AssignFloat, AssignString, AssignLink, BeginMap,
\* BeginList: the error of mixins.BytesAssembler
BytesAssembler_AssignOther(nb, kind) == Did(nb, "error")

\* AssignBytes that does not look at the Maybe.
BytesAssembler_AssignBytes_Unchecked(nb, v) ==
    Did([nb EXCEPT !.heap[nb.w] = v, !.m = "Value"], "ok")

\* AssignBytes(v)
BytesAssembler_AssignBytes(nb, v) ==
    IF nb.m \in {"Value", "Null"} THEN Did(nb, "panic")
    ELSE Did([nb EXCEPT !.heap[nb.w] = v, !.m = "Value"], "ok")

\* AssignNode(v): a null node, a *_Bytes (tag "Bytes"), or any other node
\* through its AsBytes
BytesAssembler_AssignNode(nb, v) ==
    IF v.kind = "Null" THEN BytesAssembler_AssignNull(nb)
    ELSE IF v.kind = "Bytes" /\ v.tag = "Bytes" THEN
        IF nb.m \in {"Value", "Null"} THEN Did(nb, "panic")
        ELSE Did([nb EXCEPT !.heap[nb.w] = v.s, !.m = "Value"], "ok")
    ELSE IF v.kind # "Bytes" THEN Did(nb, "error")
    ELSE BytesAssembler_AssignBytes(nb, v.s)

BytesValues == { <<1>>, <<2, 3>> }

OtherAssigns ==
    { "AssignBool", "AssignInt", "AssignFloat", "AssignString", "AssignLink",
      "BeginMap", "BeginList" }

BuilderNodes == { NullNode, IntNode(5), BytesNode("", <<9>>), BytesNode("Bytes", <<7>>) }

InitBuilder ==
    /\ ResolverIdle
    /\ MarshalIdle
    /\ TransformIdle
    /\ ConcurrentIdle
    /\ StackIdle
    /\ bheap = BytesPrototype_NewBuilder.heap
    /\ bw = BytesPrototype_NewBuilder.w
    /\ bm = BytesPrototype_NewBuilder.m
    /\ bout = <<>>
    /\ blast = "new"
    /\ bops = <<>>

\* the builder as the variables hold it
Builder == [heap |-> bheap, w |-> bw, m |-> bm]

\* the operation op was called and did r
Called(op, r) ==
    /\ Len(bops) < MaxOps
    /\ bheap' = r.nb.heap
    /\ bw' = r.nb.w
    /\ bm' = r.nb.m
    /\ blast' = r.out
    /\ bops' = Append(bops, [op |-> op, out |-> r.out])
    /\ bout' = IF r.out = "node"
               THEN Append(bout, [addr |-> r.nb.w, x |-> r.nb.heap[r.nb.w]])
               ELSE bout
    /\ UNCHANGED <<rvars, mvars, tvars, cvars, kvars>>

CallBuild == Called("Build", BytesBuilder_Build(Builder))

CallReset == Called("Reset", BytesBuilder_Reset(Builder))

CallAssignNull == Called("AssignNull", BytesAssembler_AssignNull(Builder))

CallAssignBytes == \E v \in BytesValues : Called("AssignBytes", BytesAssembler_AssignBytes(Builder, v))

\* one of the assignments of another kind; the history does not tell which
CallAssignOther ==
    \E k \in OtherAssigns : Called("AssignOther", BytesAssembler_AssignOther(Builder, k))

CallAssignNode == \E v \in BuilderNodes : Called("AssignNode", BytesAssembler_AssignNode(Builder, v))

NextBuilder ==
    \/ CallBuild
    \/ CallReset
    \/ CallAssignNull
    \/ CallAssignBytes
    \/ CallAssignOther
    \/ CallAssignNode

SpecBuilder == InitBuilder /\ [][NextBuilder]_vars

(***************************************************************************)
(* MarshalRecursive call by call.  kd holds the DagMarshaler values by     *)
(* address: the one the caller made at address 1, then the copies the      *)
(* calls make ("next := *d").  kstack holds what the running calls have    *)
(* left to do, innermost first: a frame is a call of MarshalRecursive on a *)
(* node with the receiver at address d ("visit"), a turn of the map loop   *)
(* ("entry") or of the list loop ("elem") of the call with that receiver,  *)
(* or the closing token of a container ("emit").  A step runs the          *)
(* innermost frame; an error or a panic unwinds every call.                *)
(***************************************************************************)
MaxLoads == 8

Frame(op, d, n, e, i, tk) ==
    [op |-> op, d |-> d, node |-> n, e |-> e, i |-> i, tok |-> tk]

VisitFrame(d, n) == Frame("visit", d, n, Elem(NullNode), 0, TNull)

\* What a frame does to the sink, the frames it leaves in its place and the
\* marshalers after it.
Stepped(st, push, heap) == [st |-> st, push |-> push, heap |-> heap]

\* case ipld.ReprKind_Map up to the loop: the open token, then one turn per
\* entry and the close token
VisitMap(heap, a, n, st) ==
    Stepped(Step(st, TMapOpen(Len(n.kids))),
            [i \in 1..Len(n.kids) |-> Frame("entry", a, NullNode, n.kids[i], 0, TNull)]
            \o <<Frame("emit", a, NullNode, Elem(NullNode), 0, TMapClose)>>,
            heap)

\* case ipld.ReprKind_List up to the loop
VisitList(heap, a, n, st) ==
    Stepped(Step(st, TArrOpen(Len(n.kids))),
            [i \in 1..Len(n.kids) |-> Frame("elem", a, NullNode, n.kids[i], i - 1, TNull)]
            \o <<Frame("emit", a, NullNode, Elem(NullNode), 0, TArrClose)>>,
            heap)

\* case ipld.ReprKind_Link when the call goes on with the node of the link
\* instead of the node the loader returned
VisitLink_SameNode(heap, a, n, st) ==
    IF n.lnk # "cid" THEN Stepped(Fail(st, "link"), <<>>, heap)
    ELSE IF heap[a].loader = "nil" THEN Stepped(EmitAll(st, LinkTokens(n.s)), <<>>, heap)
    ELSE IF LoaderCall(heap[a].loader, n.s, heap[a].path).found
    THEN Stepped([st EXCEPT !.loads = Append(@, <<n.s, heap[a].path>>)],
                 <<VisitFrame(Len(heap) + 1, n)>>,
                 Append(heap, heap[a]))
    ELSE Stepped(EmitAll([st EXCEPT !.loads = Append(@, <<n.s, heap[a].path>>)],
                         LinkTokens(n.s)),
                 <<>>, heap)

\* case ipld.ReprKind_Link: the call of a copy of the marshaler on the node
\* the loader returned, or the four tokens
VisitLink(heap, a, n, st) ==
    IF n.lnk # "cid" THEN Stepped(Fail(st, "link"), <<>>, heap)
    ELSE IF heap[a].loader = "nil" THEN Stepped(EmitAll(st, LinkTokens(n.s)), <<>>, heap)
    ELSE IF LoaderCall(heap[a].loader, n.s, heap[a].path).found
    THEN Stepped([st EXCEPT !.loads = Append(@, <<n.s, heap[a].path>>)],
                 <<VisitFrame(Len(heap) + 1,
                              LoaderCall(heap[a].loader, n.s, heap[a].path).node)>>,
                 Append(heap, heap[a]))
    ELSE Stepped(EmitAll([st EXCEPT !.loads = Append(@, <<n.s, heap[a].path>>)],
                         LinkTokens(n.s)),
                 <<>>, heap)

\* One call of MarshalRecursive up to its first inner call.
Visit(heap, a, n, st) ==
    CASE n.kind = "Map" -> VisitMap(heap, a, n, st)
      [] n.kind = "List" -> VisitList(heap, a, n, st)
      [] n.kind = "Link" -> VisitLink(heap, a, n, st)
      [] OTHER -> Stepped(MarshalRecursive(heap[a], n, st), <<>>, heap)

\* One turn of the map loop when the path is extended in the receiver and
\* the value marshaled by the receiver itself.
EntryTurn_OnReceiver(heap, a, e, st) ==
    IF e.err THEN Stepped(Fail(st, "iterator"), <<>>, heap)
    ELSE IF ~RenderString(e.key).ok THEN Stepped(Fail(st, "decode"), <<>>, heap)
    ELSE Stepped(Step(st, TString(RenderString(e.key).str)),
                 <<VisitFrame(a, e.val)>>,
                 [heap EXCEPT ![a].path = MapChildPath(heap[a], RenderString(e.key).str)])

\* One turn of the map loop up to the call on the value: "next := *d", the
\* path of the copy extended by the key.
EntryTurn(heap, a, e, st) ==
    IF e.err THEN Stepped(Fail(st, "iterator"), <<>>, heap)
    ELSE IF ~RenderString(e.key).ok THEN Stepped(Fail(st, "decode"), <<>>, heap)
    ELSE Stepped(Step(st, TString(RenderString(e.key).str)),
                 <<VisitFrame(Len(heap) + 1, e.val)>>,
                 Append(heap, [heap[a] EXCEPT
                                   !.path = MapChildPath(heap[a], RenderString(e.key).str)]))

\* One turn of the list loop up to the call on the element: "next := *d".
ElemTurn(heap, a, e, i, st) ==
    IF e.err THEN Stepped(Fail(st, "lookup"), <<>>, heap)
    ELSE Stepped(st, <<VisitFrame(Len(heap) + 1, e.val)>>,
                 Append(heap, [heap[a] EXCEPT !.path = ListChildPath(heap[a], i)]))

\* The stack after the innermost frame did r: an error returns through every
\* call.
Unwind(r, stack) == IF r.st.err # "" \/ r.st.panic THEN <<>> ELSE r.push \o Tail(stack)

StackNodes == MarshalNodes

StackLoaders == Loaders \cup {"loop", "self"}

InitStack ==
    /\ ResolverIdle
    /\ MarshalIdle
    /\ TransformIdle
    /\ ConcurrentIdle
    /\ BuilderIdle
    /\ knode \in StackNodes
    /\ kloader \in StackLoaders
    /\ \E p \in MarshalPaths : kd = <<[loader |-> kloader, path |-> p]>>
    /\ \E f \in {0, 3} : kres = SinkState(f)
    /\ kstack = <<VisitFrame(1, knode)>>
    /\ ksteps = 0
    /\ kpc = "run"

\* the innermost frame runs and leaves r
Ran(r) ==
    /\ kres' = r.st
    /\ kd' = r.heap
    /\ kstack' = Unwind(r, kstack)
    /\ ksteps' = ksteps + 1
    /\ kpc' = IF Unwind(r, kstack) = <<>> THEN "done" ELSE "run"
    /\ UNCHANGED <<knode, kloader, rvars, mvars, tvars, cvars, bvars>>

\* a call of MarshalRecursive starts
StepVisit ==
    /\ kpc = "run"
    /\ Head(kstack).op = "visit"
    /\ Len(kres.loads) < MaxLoads
    /\ Ran(Visit(kd, Head(kstack).d, Head(kstack).node, kres))

\* the map loop takes a turn
StepEntry ==
    /\ kpc = "run"
    /\ Head(kstack).op = "entry"
    /\ Ran(EntryTurn(kd, Head(kstack).d, Head(kstack).e, kres))

\* the list loop takes a turn
StepElem ==
    /\ kpc = "run"
    /\ Head(kstack).op = "elem"
    /\ Ran(ElemTurn(kd, Head(kstack).d, Head(kstack).e, Head(kstack).i, kres))

\* a container is closed
StepEmit ==
    /\ kpc = "run"
    /\ Head(kstack).op = "emit"
    /\ Ran(Stepped(Step(kres, Head(kstack).tok), <<>>, kd))

NextStack == StepVisit \/ StepEntry \/ StepElem \/ StepEmit

SpecStack == InitStack /\ [][NextStack]_vars

\* A frame runs: every step of NextStack is one, and one can be taken
\* whenever a frame is left and the Loader calls are below MaxLoads.
FrameRuns ==
    /\ kpc = "run"
    /\ Head(kstack).op = "visit" => Len(kres.loads) < MaxLoads
    /\ ksteps' = ksteps + 1

\* The goroutine that runs the call is scheduled as long as it can step.
FairStack == SpecStack /\ WF_ksteps(FrameRuns)

(***************************************************************************)
(* C1: resolving an already resolved key gives the same key, for every     *)
(* path (ResolveType is idempotent).                                       *)
(***************************************************************************)
C1_Idempotent == rpc = "twice" => rkey2 = rkey

(***************************************************************************)
(* C2: when the loader resolves the CID of a link to a node X, marshaling  *)
(* the link emits, token for token, what marshaling X with the same        *)
(* marshaler (same loader, same path, same sink) emits, and returns the    *)
(* same error; the stream does not start with the link wrapper.            *)
(***************************************************************************)
IsCidLink(n) == n.kind = "Link" /\ n.lnk = "cid"

TopLinkResolved ==
    /\ mvia = "MarshalRecursive"
    /\ IsCidLink(mnode)
    /\ mloader # "nil"
    /\ LoaderCall(mloader, mnode.s, mpath).found

C2_LinkInlining ==
    TopLinkResolved =>
        LET direct == MarshalRecursive([loader |-> mloader, path |-> mpath],
                                       LoaderCall(mloader, mnode.s, mpath).node,
                                       SinkState(mfailAt)) IN
        /\ mres.tokens = direct.tokens
        /\ mres.err = direct.err
        /\ ~(Len(mres.tokens) >= 2 /\ mres.tokens[1] = TMapOpen(1)
                /\ mres.tokens[2] = TString(StrSlash))

C2_Witness ==
    /\ TopLinkResolved
    /\ mres.err = ""
    /\ Len(mres.tokens) > 4

(***************************************************************************)
(* C3: with no loader (always so through Marshal) or a loader that returns *)
(* nil for the CID, and a sink that accepts the tokens, marshaling a CID   *)
(* link emits exactly MapOpen(1), String "/", String <CID text>, MapClose. *)
(***************************************************************************)
TopLinkUnresolved ==
    /\ IsCidLink(mnode)
    /\ \/ mvia = "Marshal"
       \/ /\ mvia = "MarshalRecursive"
          /\ mloader = "nil" \/ ~LoaderCall(mloader, mnode.s, mpath).found

C3_LinkWrapper ==
    TopLinkUnresolved /\ (mfailAt = 0 \/ mfailAt > 4) =>
        /\ mres.err = ""
        /\ mres.tokens = <<TMapOpen(1), TString(StrSlash), TString(CidText(mnode.s)), TMapClose>>

C3_Witness ==
    /\ TopLinkUnresolved
    /\ mvia = "Marshal"
    /\ mloader = "store"
    /\ mnode = LinkNode(CidA)
    /\ Len(mres.tokens) = 4

(***************************************************************************)
(* Helpers of the claims about Transform.                                  *)
(***************************************************************************)
\* The key Transform looks up, and whether it found a prototype.
TKey == ResolveType(tas)
TRegistered == TKey \in RegisteredKeys

\* The position after the value that starts at pos of a token stream.
RECURSIVE ValueEnd(_, _, _)
ValueEnd(toks, pos, depth) ==
    IF pos > Len(toks) THEN pos
    ELSE LET t == toks[pos].type
             d == IF t \in {"TMapOpen", "TArrOpen"} THEN depth + 1
                  ELSE IF t \in {"TMapClose", "TArrClose"} THEN depth - 1
                  ELSE depth IN
         IF d = 0 THEN pos + 1 ELSE ValueEnd(toks, pos + 1, d)

\* The keys of the map whose entries start at pos.
RECURSIVE MapKeysFrom(_, _)
MapKeysFrom(toks, pos) ==
    IF pos > Len(toks) \/ toks[pos].type = "TMapClose" THEN <<>>
    ELSE <<toks[pos].str>> \o MapKeysFrom(toks, ValueEnd(toks, pos + 1, 0))

\* The keys of the map a token stream holds.
TokenMapKeys(toks) == MapKeysFrom(toks, 2)

\* An intact HAMT whose values all decode to a tuple struct.
WellFormedHamt(blk) ==
    /\ blk.shape = "hamt"
    /\ blk.failAt = 0
    /\ \A i \in 1..Len(blk.entries) :
           blk.entries[i].sub = NoSub /\ blk.entries[i].raw = RawTuple

\* An intact array whose elements all decode to a tuple struct.
WellFormedArray(blk) ==
    /\ blk.shape = "amt"
    /\ blk.failAt = 0
    /\ \A i \in 1..Len(blk.entries) : blk.entries[i].raw = RawTuple

\* An intact multimap of such arrays, with outer keys of different values.
WellFormedMultimap(blk) ==
    /\ blk.shape = "hamt"
    /\ blk.failAt = 0
    /\ \A i \in 1..Len(blk.entries) : WellFormedArray(blk.entries[i].sub)
    /\ \A i, j \in 1..Len(blk.entries) :
           i # j => BigIntString(blk.entries[i].k) # BigIntString(blk.entries[j].k)

(***************************************************************************)
(* C4: a HAMT of N entries with distinct raw keys (also keys that differ   *)
(* only by leading zero bytes, or an empty key), decoded by a numeric-key  *)
(* decoder and marshaled, gives a map of exactly N entries whose keys are  *)
(* the decimal strings of the raw keys read as big-endian unsigned         *)
(* integers, in the structure's order.                                     *)
(***************************************************************************)
NumericKeyHamtCase ==
    /\ TRegistered
    /\ PrototypeOf(TKey) \in ComplexPrototypes
    /\ ComplexLoaderOf(PrototypeOf(TKey)) \in
           {"transformMinerActorPreCommittedSectors", "transformMultisigPending"}
    /\ WellFormedHamt(tblock)

C4_NumericKeyRoundTrip ==
    (tpc # "start" /\ NumericKeyHamtCase) =>
        /\ tres.err = ""
        /\ tpc = "marshaled" =>
               /\ mres.err = ""
               /\ mres.tokens[1] = TMapOpen(Len(tblock.entries))
               /\ TokenMapKeys(mres.tokens) =
                      [i \in 1..Len(tblock.entries) |-> BigIntString(tblock.entries[i].k)]

(***************************************************************************)
(* C5: Transform on the power actor's cron event queue succeeds on a       *)
(* well-formed multimap, and under each outer key's decimal string the     *)
(* result holds one inner map whose keys are the element positions         *)
(* "0", "1", "2", ... and whose values are the decoded elements.           *)
(***************************************************************************)
InnerMapOf(arr) ==
    [j \in 1..Len(arr.entries) |->
        Entry(StringNode("", DecimalString(j - 1)),
              DagCborDecode("PowerV0CronEvent__Repr", arr.entries[j].raw).node)]

C5_EventQueueExpansion ==
    (tpc # "start" /\ TKey = StoragePowerActorCronEventQueue /\ WellFormedMultimap(tblock)) =>
        /\ tres.err = ""
        /\ tres.node.kind = "Map"
        /\ Len(tres.node.kids) = Len(tblock.entries)
        /\ \A i \in 1..Len(tblock.entries) :
               /\ tres.node.kids[i].key.s = BigIntString(tblock.entries[i].k)
               /\ tres.node.kids[i].val.kind = "Map"
               /\ tres.node.kids[i].val.kids = InnerMapOf(tblock.entries[i].sub)

(***************************************************************************)
(* C6: for every registered type key, Transform returns either a node of   *)
(* the representation kind of the key's prototype, or an error and no      *)
(* node; it never returns a node of another kind.                          *)
(***************************************************************************)
C6_KindFidelity ==
    (tpc # "start" /\ TRegistered) =>
        /\ ~tres.panic
        /\ \/ tres.err = "" /\ tres.node.kind = TypeKind(PrototypeOf(TKey))
           \/ tres.err # "" /\ tres.node = AbsentNode

C6_Witness ==
    /\ tpc = "done"
    /\ TRegistered
    /\ PrototypeOf(TKey) \notin ComplexPrototypes
    /\ tblock.shape = "flat"
    /\ tres.err = ""
    /\ tres.node.kind = "List"

(***************************************************************************)
(* C7: for every type path whose resolved key is not registered (such as   *)
(* "bogus.path" or "systemActor"), Transform returns an error and no node. *)
(***************************************************************************)
C7_UnknownType ==
    (tpc # "start" /\ ~TRegistered) =>
        /\ tres.err # ""
        /\ tres.node = AbsentNode
        /\ ~tres.panic

C7_Witness ==
    /\ tpc = "done"
    /\ tas \in { <<"bogus", ".", "path">>, <<"systemActor">> }
    /\ tblock.shape = "hamt"
    /\ tres.err = "unknown type"
    /\ tres.node = AbsentNode

(***************************************************************************)
(* C8: a structure decoder reports success only after every entry of the   *)
(* source structure, and every element of a nested array or set, has been  *)
(* visited and decoded: a node Transform returns for a structure is never  *)
(* missing entries or elements.                                            *)
(***************************************************************************)
\* The node holds every entry of the structure, and every element of the
\* structures its entries point at.
Complete(node, blk) ==
    /\ Len(node.kids) = Len(blk.entries)
    /\ \A i \in 1..Len(blk.entries) :
           blk.entries[i].sub.shape # "none" =>
               Len(node.kids[i].val.kids) = Len(blk.entries[i].sub.entries)

C8_NoPartialContainer ==
    (/\ tpc # "start"
     /\ TRegistered
     /\ PrototypeOf(TKey) \in ComplexPrototypes
     /\ tres.err = ""
     /\ ~tres.panic) => Complete(tres.node, tblock)

(***************************************************************************)
(* C9: when a marshal call returns an error of its own (absent node,       *)
(* non-CID link, undecodable bytes, iterator error), the sink has received *)
(* no token of that call.                                                  *)
(***************************************************************************)
C9_NoPartialStream ==
    mvia # "" /\ mres.err \in {"absent", "link", "decode", "iterator", "lookup"} =>
        mres.tokens = <<>>

(***************************************************************************)
(* C10: once a sink.Step call has failed, no further Step call is made at  *)
(* any depth, and the call returns the sink's error.                       *)
(***************************************************************************)
C10_SinkFailureAborts ==
    mvia # "" /\ SinkFailed(mres) =>
        /\ mres.late = 0
        /\ mres.steps = mfailAt
        /\ mres.err = "sink"

C10_Witness ==
    /\ mvia # ""
    /\ SinkFailed(mres)
    /\ mfailAt >= 4
    /\ mnode.kind = "List"
    /\ mnode.kids[1].val.kind = "Map"

(***************************************************************************)
(* C11: a bytes node tagged as a bitfield, holding either layout of a bit  *)
(* set, marshals to exactly the six tokens MapOpen(2), "_type",            *)
(* "bitfield", "bytes", hex, MapClose, where hex is the hex text of the    *)
(* CBOR byte string of the set's compacted form (the same text for the     *)
(* direct and the CBOR-wrapped layout) and decodes to the original set.    *)
(***************************************************************************)
HexValue(c) == IF c < 58 THEN c - 48 ELSE c - 87

RECURSIVE HexDecode(_)
HexDecode(s) ==
    IF Len(s) < 2 THEN <<>>
    ELSE <<16 * HexValue(s[1]) + HexValue(s[2])>> \o HexDecode(SubSeq(s, 3, Len(s)))

BitfieldTokens(S) ==
    <<TMapOpen(2), TString(StrType), TString(StrBitfield), TString(StrBytes),
      TString(HexEncode(CborWrap(RleEncode(S)))), TMapClose>>

C11_BitfieldRendering ==
    \A inp \in BitFieldInputs :
        mvia # "" /\ mfailAt = 0 /\ mnode = inp.node =>
            /\ mres.err = ""
            /\ mres.tokens = BitfieldTokens(inp.bits)
            /\ RleDecode(Tail(HexDecode(mres.tokens[5].str))) = inp.bits

\* The same for the direct layout alone, where it holds.
C11_DirectLayout ==
    \A inp \in BitFieldInputs :
        mvia # "" /\ mfailAt = 0 /\ mnode = inp.node /\ inp.enc = "direct" =>
            /\ mres.err = ""
            /\ mres.tokens = BitfieldTokens(inp.bits)
            /\ RleDecode(Tail(HexDecode(mres.tokens[5].str))) = inp.bits

(***************************************************************************)
(* C12: a bytes node tagged as a big integer marshals to exactly one       *)
(* String token, the decimal text of the unsigned big-endian integer its   *)
(* bytes denote: 12345 gives "12345", leading zero bytes change nothing    *)
(* and the empty byte string gives "0".                                    *)
(***************************************************************************)
\* The integer a big-endian byte string denotes, read from the first byte.
RECURSIVE BigEndianFrom(_, _)
BigEndianFrom(acc, v) == IF Len(v) = 0 THEN acc ELSE BigEndianFrom(256 * acc + v[1], Tail(v))

\* The integer a string of decimal digits denotes, -1 if it is not one.
RECURSIVE DecimalFrom(_, _)
DecimalFrom(acc, s) ==
    IF Len(s) = 0 THEN acc
    ELSE IF s[1] < 48 \/ s[1] > 57 THEN -1
    ELSE DecimalFrom(10 * acc + (s[1] - 48), Tail(s))

\* s is the decimal text of n: digits only, no leading zero except "0".
IsDecimalOf(s, n) ==
    /\ Len(s) >= 1
    /\ Len(s) > 1 => s[1] # 48
    /\ DecimalFrom(0, s) = n

BigIntCase == mvia # "" /\ mfailAt = 0 /\ mnode.kind = "Bytes" /\ mnode.tag = "BigInt"

C12_BigIntDecimal ==
    BigIntCase =>
        /\ mres.err = ""
        /\ Len(mres.tokens) = 1
        /\ mres.tokens[1].type = "TString"
        /\ IsDecimalOf(mres.tokens[1].str, BigEndianFrom(0, mnode.s))
        /\ mnode.s = <<48, 57>> => mres.tokens[1].str = <<49, 50, 51, 52, 53>>
        /\ mnode.s = <<>> => mres.tokens[1].str = <<48>>
        /\ MarshalBytes(BytesNode("BigInt", <<0>> \o mnode.s), SinkState(0)).tokens = mres.tokens

C12_Witness == BigIntCase /\ mnode.s = <<0, 48, 57>> /\ mres.tokens = <<TString(<<49, 50, 51, 52, 53>>)>>

(***************************************************************************)
(* C13: a link that is not a CID link makes the call fail with an error:   *)
(* no token is emitted for that link (the stream stops with the tokens of  *)
(* what came before it) and the loader is not called for it.               *)
(***************************************************************************)
\* A list whose second element is a link of another type, after a CID link.
MixedLinks == ListNode(<<Elem(LinkNode(CidA)), Elem(OtherLinkNode(CidC)), Elem(NullNode)>>)

\* The marshaler the call under way uses.
Marshaler ==
    IF mvia = "Marshal" THEN [loader |-> "nil", path |-> <<>>]
    ELSE [loader |-> mloader, path |-> mpath]

C13_NonCidLink ==
    /\ mvia # "" /\ mnode = OtherLinkNode(CidA) =>
           /\ mres.err = "link"
           /\ ~mres.panic
           /\ mres.tokens = <<>>
           /\ mres.steps = 0
           /\ mres.loads = <<>>
    /\ mvia # "" /\ mnode = MixedLinks /\ mfailAt = 0 =>
           /\ mres.err = "link"
           /\ ~mres.panic
           /\ mres.tokens = <<TArrOpen(3)>>
                  \o MarshalRecursive(Marshaler, LinkNode(CidA), SinkState(0)).tokens
           /\ \A i \in 1..Len(mres.loads) : mres.loads[i][1] # CidC

C13_Witness ==
    /\ mvia = "MarshalRecursive"
    /\ mloader = "store"
    /\ mnode = MixedLinks
    /\ mfailAt = 0
    /\ mres.err = "link"
    /\ Len(mres.loads) = 1

(***************************************************************************)
(* C14: a node whose kind is none of Map, List, Bool, Int, Float, String,  *)
(* Bytes, Link, Null (the Invalid kind of an absent node among them) makes *)
(* MarshalRecursive panic; it never returns an ordinary error for it.      *)
(***************************************************************************)
NineKinds == {"Map", "List", "Bool", "Int", "Float", "String", "Bytes", "Link", "Null"}

C14_UnknownKindPanics ==
    mvia # "" /\ mnode.kind \notin NineKinds => mres.panic

(***************************************************************************)
(* C14, amended: a kind outside the nine and other than Invalid makes      *)
(* MarshalRecursive panic, at the top and below it; an Invalid (absent)    *)
(* node makes it return an ordinary error, with no token emitted and no    *)
(* panic.                                                                  *)
(***************************************************************************)
DeepOtherKind == ListNode(<<Elem(ListNode(<<Elem(IntNode(1)), Elem(OtherKindNode)>>))>>)

C14_AbsentIsAnError ==
    /\ mvia # "" /\ mnode.kind \notin (NineKinds \cup {"Invalid"}) =>
           /\ mres.panic
           /\ mres.tokens = <<>>
    /\ mvia # "" /\ mnode = DeepOtherKind /\ mfailAt = 0 =>
           /\ mres.panic
           /\ mres.tokens = <<TArrOpen(1), TArrOpen(2), TInt(1)>>
    /\ mvia # "" /\ mnode.kind = "Invalid" =>
           /\ ~mres.panic
           /\ mres.err = "absent"
           /\ mres.tokens = <<>>
           /\ mres.steps = 0

C14_Witness == mvia # "" /\ mnode = DeepOtherKind /\ mfailAt = 0 /\ mres.panic

(***************************************************************************)
(* C15: Load calls the registered structure decoder exactly when the       *)
(* prototype of the target assembler has an entry in complexLoaders, and   *)
(* then reads no block itself and returns what the decoder returns;        *)
(* otherwise it reads the block once and decodes it as a flat CBOR         *)
(* document into the assembler, returning the block store's or the         *)
(* decoder's error as it is.                                               *)
(***************************************************************************)
TProto == PrototypeOf(TKey)

Loaded_Complex ==
    /\ tload.loader = ComplexLoaderOf(TProto)
    /\ tload.gets = 0
    /\ tload.err = tload.ma.err
    /\ tload.err = "" => tload.into.node = BuildMap(TProto, tload.ma)

Loaded_Flat ==
    /\ tload.loader = ""
    /\ tload.gets = 1
    /\ tblock.shape = "missing" => tload.err = "not found"
    /\ tblock.shape = "flat" =>
           /\ tload.err = DagCborDecode(TProto, tblock.raw).err
           /\ tload.err = "" => tload.into.node = DagCborDecode(TProto, tblock.raw).node

C15_LoadDispatch ==
    tpc # "start" /\ TRegistered =>
        /\ tload.loader # "" <=> TProto \in ComplexPrototypes
        /\ IF tload.loader # "" THEN Loaded_Complex ELSE Loaded_Flat

C15_Witness ==
    /\ tpc = "done"
    /\ TRegistered
    /\ tload.loader = "transformInitActor"
    /\ tload.gets = 0
    /\ Len(tload.ma.entries) = 2

C15_WitnessFlat ==
    /\ tpc = "done"
    /\ TRegistered
    /\ tload.loader = ""
    /\ tload.gets = 1
    /\ tload.err = "not found"

(***************************************************************************)
(* C16: the decoders of the miner's pre-committed sectors, the power cron  *)
(* event queue, the market deal-ops-by-epoch and the multisig pending      *)
(* transactions, and only they, hand to AssembleEntry the decimal text of  *)
(* the raw key bytes read as a big-endian unsigned integer; the decoders   *)
(* of the state root, the init address map, the power claims, the data     *)
(* caps, the market pending proposals and the balance tables hand it the   *)
(* structure's key as it is.                                               *)
(***************************************************************************)
NumericKeyDecoders ==
    { "transformMinerActorPreCommittedSectors", "transformPowerActorEventQueue",
      "transformMarketDealOpsByEpoch", "transformMultisigPending" }

StringKeyDecoders ==
    { "transformStateRoot", "transformInitActor", "transformPowerActorClaims",
      "transformVerifiedRegistryDataCaps", "transformMarketPendingProposals",
      "transformMarketBalanceTable" }

\* The key a decoder is to emit for the raw key k.
ExpectedKey(loader, k) ==
    IF loader \in NumericKeyDecoders THEN DecimalString(BigEndianFrom(0, k)) ELSE k

\* The decoder under way walks a string-keyed structure it could load.
StringKeyedCase ==
    /\ tpc # "start"
    /\ tload.loader \in NumericKeyDecoders \cup StringKeyDecoders
    /\ tblock.shape = "hamt"

C16_KeyEmission ==
    StringKeyedCase =>
        /\ Len(tload.ma.keys) <= Len(tblock.entries)
        /\ \A i \in 1..Len(tload.ma.keys) :
               tload.ma.keys[i] = ExpectedKey(tload.loader, tblock.entries[i].k)
        /\ tload.err = "" => Len(tload.ma.keys) = Len(tblock.entries)

C16_Witness ==
    /\ StringKeyedCase
    /\ tload.loader = "transformMultisigPending"
    /\ tload.err = ""
    /\ Len(tload.ma.keys) = 2
    /\ tload.ma.keys[1] # tblock.entries[1].k

C16_WitnessString ==
    /\ StringKeyedCase
    /\ tload.loader = "transformPowerActorClaims"
    /\ tload.err = ""
    /\ Len(tload.ma.keys) = 2
    /\ tload.ma.keys[1] # DecimalString(BigEndianFrom(0, tblock.entries[1].k))

C16_WitnessQueue ==
    /\ StringKeyedCase
    /\ tload.loader \in {"transformPowerActorEventQueue", "transformMarketDealOpsByEpoch"}
    /\ Len(tload.ma.keys) >= 1

(***************************************************************************)
(* C17: for every input string the result of ResolveType is in canonical   *)
(* form: it contains no '/', no bracketed numeric index "[n]", no numeric  *)
(* segment between two delimiters ".n.", and it is not a key of the alias  *)
(* table.                                                                  *)
(***************************************************************************)
HasSlash(s) == \E i \in 1..Len(s) : s[i] = "/"
HasIndexMarker(s) == \E i \in 1..Len(s) : MatchDelimited(s, i, "[", "]") > 0
HasNumericSegment(s) == \E i \in 1..Len(s) : MatchDelimited(s, i, ".", ".") > 0

C17_Canonical ==
    rpc # "start" =>
        /\ ~HasSlash(rkey)
        /\ ~HasIndexMarker(rkey)
        /\ ~HasNumericSegment(rkey)
        /\ rkey \notin AliasKeys

\* The part of canonical form that every result has.
C17_NoSlashNoAliasKey == rpc # "start" => ~HasSlash(rkey) /\ rkey \notin AliasKeys

(***************************************************************************)
(* C18: marshaling a map node with n entries emits MapOpen(n), then for    *)
(* each entry in iteration order one String token for the key (the address *)
(* or CID text when the key carries that tag) followed at once by the      *)
(* whole token stream of the value, then MapClose; the value is marshaled  *)
(* with the path of the map extended by the emitted key string.            *)
(***************************************************************************)
\* The sink state after marshaling, on its own, the value of entry e of a
\* map at the path of d.
ValueAlone(d, e) ==
    MarshalRecursive([d EXCEPT !.path = Append(d.path, RenderString(e.key).str)],
                     e.val, SinkState(0))

RECURSIVE EntryStreams(_, _, _)
EntryStreams(d, kids, i) ==
    IF i > Len(kids) THEN <<>>
    ELSE <<TString(RenderString(kids[i].key).str)>> \o ValueAlone(d, kids[i]).tokens
             \o EntryStreams(d, kids, i + 1)

RECURSIVE EntryLoads(_, _, _)
EntryLoads(d, kids, i) ==
    IF i > Len(kids) THEN <<>>
    ELSE ValueAlone(d, kids[i]).loads \o EntryLoads(d, kids, i + 1)

MapCase == mvia # "" /\ mnode.kind = "Map" /\ mfailAt = 0 /\ mres.err = ""

C18_MapStream ==
    MapCase =>
        /\ mres.tokens = <<TMapOpen(Len(mnode.kids))>> \o EntryStreams(Marshaler, mnode.kids, 1)
                             \o <<TMapClose>>
        /\ mres.loads = EntryLoads(Marshaler, mnode.kids, 1)

C18_Witness ==
    /\ MapCase
    /\ mvia = "MarshalRecursive"
    /\ mloader = "store"
    /\ Len(mnode.kids) = 2
    /\ mnode.kids[1].key.tag = "RawAddress"
    /\ mnode.kids[1].val = LinkNode(CidC)
    /\ mnode.kids[2].val = LinkNode(CidA)
    /\ Len(mres.loads) = 2
    /\ mres.loads[2][2] = Append(mpath, StrA)

(***************************************************************************)
(* C19: marshaling a list node recurses into each element in index order   *)
(* with the path extended by the element's index: the loader called for a  *)
(* link at index i of a list at path P receives P extended by segment i.   *)
(***************************************************************************)
\* The sink state after marshaling, on its own, the element at Go index i
\* of a list at the path of d, with the path extended by i.
ElementAlone(d, e, i) ==
    MarshalRecursive([d EXCEPT !.path = Append(d.path, DecimalString(i))], e.val, SinkState(0))

RECURSIVE ElementLoads(_, _, _)
ElementLoads(d, kids, i) ==
    IF i > Len(kids) THEN <<>>
    ELSE ElementAlone(d, kids[i], i - 1).loads \o ElementLoads(d, kids, i + 1)

ListCase == mvia # "" /\ mnode.kind = "List" /\ mfailAt = 0 /\ mres.err = ""

C19_ListPath == ListCase => mres.loads = ElementLoads(Marshaler, mnode.kids, 1)

\* What holds instead: the elements are marshaled in index order, each with
\* the path of the list itself.
RECURSIVE ElementLoadsSamePath(_, _, _)
ElementLoadsSamePath(d, kids, i) ==
    IF i > Len(kids) THEN <<>>
    ELSE MarshalRecursive(d, kids[i].val, SinkState(0)).loads
             \o ElementLoadsSamePath(d, kids, i + 1)

C19_ListKeepsPath == ListCase => mres.loads = ElementLoadsSamePath(Marshaler, mnode.kids, 1)

(***************************************************************************)
(* C20: in every structure decoder Finish is called at most once on each   *)
(* map or list assembler the decoder opened, and only after the iteration  *)
(* that fills it completed without error; when an iteration callback fails *)
(* the decoder returns that error with the assembler unfinished, and Build *)
(* is never called on a builder whose fill was interrupted by an error.    *)
(***************************************************************************)
\* The discipline for one nested assembler.
InnerDisciplined(u) ==
    /\ u.finishes <= 1
    /\ u.broken => u.finishes = 0 /\ ~u.built

\* A structure decoder has run and has opened its map assembler.
DecoderRan == tpc # "start" /\ tload.loader # ""

FinishDiscipline ==
    /\ tload.ma.finishes <= 1
    /\ tload.ma.finishes = 1 => tload.ma.err = "" /\ tload.err = ""
    /\ tload.ma.err # "" =>
           /\ tload.ma.finishes = 0
           /\ tload.err = tload.ma.err
           /\ tres.err = tload.ma.err
           /\ tres.node = AbsentNode
    /\ \A i \in 1..Len(tload.ma.inner) : InnerDisciplined(tload.ma.inner[i])
    /\ (\E i \in 1..Len(tload.ma.inner) : tload.ma.inner[i].broken) => tload.err # ""

C20_FinishDiscipline == DecoderRan => FinishDiscipline

\* The same for every decoder but the one of the deal-ops-by-epoch table,
\* where it holds.
C20_ExceptDealOps ==
    DecoderRan /\ tload.loader # "transformMarketDealOpsByEpoch" => FinishDiscipline

\* A nested iteration of the event queue decoder fails: nothing is finished.
C20_InterruptedQueue ==
    /\ DecoderRan
    /\ tload.loader = "transformPowerActorEventQueue"
    /\ Len(tload.ma.inner) = 1
    /\ tload.ma.inner[1].broken
    /\ tload.ma.finishes = 0

(***************************************************************************)
(* C21.  The unknown-type error and the block store.                       *)
(***************************************************************************)
SwitchKeys == { e[1] : e \in SwitchLoaders } \cup { e[1] : e \in SwitchPrototypes }

\* a Transform call has returned for a type path that resolves to no key of
\* the version that ran
UnknownTypeCall ==
    \/ tpc = "done" /\ ~TRegistered
    \/ tpc = "switched" /\ ResolveType_Switch(tas) \notin SwitchKeys

\* C21: a Transform call whose type path resolves to no registered key
\* returns the unknown-type error, whatever the block is, and has issued no
\* Get on the block store and run no decoder.
C21_UnknownTypeBeforeStore ==
    UnknownTypeCall =>
        /\ tres.err = "unknown type"
        /\ ~tres.panic
        /\ tload.gets = 0
        /\ tload.loader = ""

\* the same for the registry-based Transform alone, which holds
C21_RegistryVersion == tpc = "done" => C21_UnknownTypeBeforeStore

C21_RegistryWitness ==
    /\ tpc = "done"
    /\ ~TRegistered
    /\ tblock = MissingBlock
    /\ tres.err = "unknown type"

(***************************************************************************)
(* C22.  Bitfields that cannot be decoded or written back.                 *)
(***************************************************************************)
\* a MarshalRecursive call on a bytes node typed BitField, with a sink that
\* takes every token
BitFieldCall(n) ==
    /\ mvia = "MarshalRecursive"
    /\ mfailAt = 0
    /\ mnode = n
    /\ n.kind = "Bytes"
    /\ n.tag = "BitField"

\* the stream is a bitfield map whose "bytes" string is empty
EmptyBitfieldMap ==
    /\ Len(mres.tokens) = 6
    /\ mres.tokens[4] = TString(StrBytes)
    /\ mres.tokens[5] = TString(<<>>)

\* C22: when the bytes of a bitfield node decode under neither layout, or the
\* decoded bitfield cannot be written back, MarshalRecursive returns an error
\* and emits no bitfield map whose "bytes" string is empty or cut short: the
\* string of a call that returns no error is the hex of the whole CBOR form.
C22_BitfieldFailure ==
    BitFieldCall(mnode) =>
        /\ ~BitFieldDecode(mnode.s).ok => mres.err # "" /\ mres.tokens = <<>>
        /\ Len(BitFieldDecode(mnode.s).rle) > MaxRleBytes => mres.err # ""
        /\ ~EmptyBitfieldMap

\* the decoding half of C22, which holds
C22_DecodeFailure ==
    BitFieldCall(mnode) /\ ~BitFieldDecode(mnode.s).ok =>
        mres.err # "" /\ mres.tokens = <<>>

C22_DecodeFailureWitness ==
    /\ BitFieldCall(mnode)
    /\ mnode.s = <<3>>
    /\ mres.err = "decode"

(***************************************************************************)
(* C23.  The registered keys and the alias targets are canonical.          *)
(***************************************************************************)
AliasTargets == { a[2] : a \in LotusTypeAliases }

\* C23: ResolveType maps every key of LotusPrototypes and every target of an
\* alias to itself, and every alias target is a key of LotusPrototypes: a
\* Transform call on a registered key resolves to that key, and a call on an
\* alias resolves to a registered key that resolves to itself.
C23_CanonicalKeys ==
    tpc = "done" =>
        /\ AliasTargets \subseteq RegisteredKeys
        /\ tas \in RegisteredKeys \cup AliasTargets => TKey = tas
        /\ tas \in AliasKeys =>
               /\ TKey = AliasOf(tas)
               /\ TKey \in RegisteredKeys
               /\ ResolveType(TKey) = TKey

\* a call on a registered key the alias table names as a target, and one on
\* the alias itself
C23_Witness ==
    /\ tpc = "done"
    /\ tas = StorageMinerActorDeadlinePartitionExpiry
    /\ tas \in AliasTargets
    /\ TKey = tas
    /\ tres.err # "unknown type"

(***************************************************************************)
(* C24.  Concurrent Transform calls.                                       *)
(***************************************************************************)
\* C24: while Transform calls run concurrently the alias table, the
\* prototype registry and the decoder registry stay as the package
\* initialised them, and every call that has returned has the result the
\* same call has when it runs alone.
C24_NoInterference ==
    /\ ctab = Registries
    /\ \A g \in DOMAIN ccall :
           ccall[g].pc = "done" => ccall[g].res = Transform(ccall[g].blk, ccall[g].as)

\* a call ran from start to end while another call on the same alias was
\* between its lookup and its load
C24_Witness ==
    /\ ccall # <<>>
    /\ ccall[1].pc = "looked"
    /\ ccall[2].pc = "done"
    /\ ccall[1].as = <<"tipset", ".", "ParentStateRoot">>
    /\ ccall[2].as = ccall[1].as
    /\ ccall[2].res.err = ""

(***************************************************************************)
(* C25.  The registry-based Transform against the switch-based one.        *)
(***************************************************************************)
\* two calls on a block whose nodes all load ran decoders of the same kind:
\* both decoded the block as a flat document or both ran a structure
\* decoder, and the block had the structure the one decoder reads exactly
\* when it had the structure the other reads
SameStructure(r, s) ==
    /\ r.loader = "" <=> s.loader = ""
    /\ r.err = "structure" <=> s.err = "structure"

\* what Load of the registry-based Transform leaves for the call the
\* switch-based Transform was given
RegistryLoad == Load(tblock, NewBuilder(PrototypeOf(tas)))

\* C25: for every registered key the registry-based Transform runs a
\* structure decoder that reads the same kind of structure as the decoder
\* the switch-based Transform runs for that key (or both decode a flat
\* document), also for storageMarketActor.Proposals and
\* storageMarketActor.PendingProposals.
C25_SameDecoder ==
    tpc = "switched" /\ tas \in RegisteredKeys /\ tblock.failAt = 0
    => SameStructure(RegistryLoad, tload)

\* the same for every key but the two market proposal tables, which holds
C25_ExceptProposals ==
    /\ tpc = "switched"
    /\ tas \in RegisteredKeys \ { MarketActorProposals, MarketActorPendingProposals }
    /\ tblock.failAt = 0
    => SameStructure(RegistryLoad, tload)

\* the two versions on storageMarketActor.Proposals and an AMT
C25_ProposalsSwapped ==
    /\ tpc = "switched"
    /\ tas = MarketActorProposals
    /\ tblock.shape = "amt"
    /\ tload.loader = "transformMarketProposals"
    /\ tload.err # "structure"
    /\ RegistryLoad.loader = "transformMarketPendingProposals"
    /\ RegistryLoad.err = "structure"

(***************************************************************************)
(* C26.  The token stream of a successful call is one well-nested value.   *)
(***************************************************************************)
RECURSIVE ParseValue(_, _)
RECURSIVE ParsePairs(_, _, _)
RECURSIVE ParseValues(_, _, _)

\* The position after the n values that start at pos, 0 when they are not n
\* well-nested values.
ParseValues(toks, pos, n) ==
    IF n = 0 THEN pos
    ELSE IF ParseValue(toks, pos) = 0 THEN 0
    ELSE ParseValues(toks, ParseValue(toks, pos), n - 1)

\* The position after the n key/value pairs that start at pos, 0 when they
\* are not n pairs of a string key and a well-nested value.
ParsePairs(toks, pos, n) ==
    IF n = 0 THEN pos
    ELSE IF pos > Len(toks) \/ toks[pos].type # "TString" THEN 0
    ELSE IF ParseValue(toks, pos + 1) = 0 THEN 0
    ELSE ParsePairs(toks, ParseValue(toks, pos + 1), n - 1)

\* The position after the well-nested value that starts at pos, 0 when there
\* is none: a map is MapOpen(n), n pairs and MapClose, a list ArrOpen(n), n
\* values and ArrClose.
ParseValue(toks, pos) ==
    IF pos = 0 \/ pos > Len(toks) THEN 0
    ELSE IF toks[pos].type = "TMapOpen" THEN
        IF ParsePairs(toks, pos + 1, toks[pos].length) \in 1..Len(toks)
           /\ toks[ParsePairs(toks, pos + 1, toks[pos].length)].type = "TMapClose"
        THEN ParsePairs(toks, pos + 1, toks[pos].length) + 1
        ELSE 0
    ELSE IF toks[pos].type = "TArrOpen" THEN
        IF ParseValues(toks, pos + 1, toks[pos].length) \in 1..Len(toks)
           /\ toks[ParseValues(toks, pos + 1, toks[pos].length)].type = "TArrClose"
        THEN ParseValues(toks, pos + 1, toks[pos].length) + 1
        ELSE 0
    ELSE IF toks[pos].type \in {"TMapClose", "TArrClose"} THEN 0
    ELSE pos + 1

\* C26: the tokens a successful MarshalRecursive (or Marshal) call has
\* delivered are exactly one well-nested value: every MapOpen(n) is followed
\* by n key/value pairs and its MapClose, every ArrOpen(n) by n values and
\* its ArrClose, also where a link was inlined, wrapped, or a bitfield map
\* emitted.
C26_WellNested ==
    mvia # "" /\ mres.err = "" /\ ~mres.panic =>
        ParseValue(mres.tokens, 1) = Len(mres.tokens) + 1

\* a successful call on a container holding a list in which a link was
\* handed to the loader
C26_Witness ==
    /\ mvia = "MarshalRecursive"
    /\ mres.err = ""
    /\ ~mres.panic
    /\ mres.loads # <<>>
    /\ \E i \in 2..Len(mres.tokens) : mres.tokens[i].type = "TArrOpen"
    /\ \E i \in 2..Len(mres.tokens) : mres.tokens[i].type = "TMapOpen"

(***************************************************************************)
(* C27.  Termination of MarshalRecursive.                                  *)
(***************************************************************************)
\* the loaders whose nodes link only to CIDs they resolve to nodes without
\* such a link back, and no loader at all
AcyclicLoaders == Loaders

\* C27: a MarshalRecursive call on a finite node returns, with no loader and
\* with every loader whose resolved nodes form an acyclic link graph.
C27_Terminates == (kpc = "run" /\ kloader \in AcyclicLoaders) ~> (kpc = "done")

\* a call that has returned has made the Step calls and left the tokens, the
\* error and the Loader calls of the recursive definition: a finite stream
C27_FiniteStream ==
    kpc = "done" /\ kloader \in AcyclicLoaders =>
        /\ kres = MarshalRecursive(kd[1], knode, SinkState(kres.failAt))
        /\ Len(kres.loads) < MaxLoads

\* a call has returned after the loader resolved a link to a node holding
\* links it resolved in turn
C27_Witness ==
    /\ kpc = "done"
    /\ kloader = "store"
    /\ kres.err = ""
    /\ Len(kres.loads) >= 3

\* with a loader whose nodes link back the call has not returned after
\* MaxLoads Loader calls
C27_CyclicRuns ==
    /\ kpc = "run"
    /\ kloader = "loop"
    /\ Len(kres.loads) = MaxLoads

\* without the condition on the loader the call need not return
C27_AnyLoaderTerminates == (kpc = "run") ~> (kpc = "done")

(***************************************************************************)
(* C28.  The marshaler a call is made on, and the paths of map values.     *)
(***************************************************************************)
\* a step leaves every DagMarshaler as it was, the caller's one included
MarshalersKept == \A a \in DOMAIN kd : kd'[a] = kd[a]

\* a turn of the map loop that goes on to the value calls a marshaler whose
\* path is the path of the loop's receiver extended by the key of the entry
ChildPathExact ==
    Head(kstack).op = "entry" /\ kstack' # <<>> =>
        /\ Head(kstack').op = "visit"
        /\ kd'[Head(kstack').d].loader = kd[Head(kstack).d].loader
        /\ kd'[Head(kstack').d].path =
               AppendSegment(kd[Head(kstack).d].path, RenderString(Head(kstack).e.key).str)

\* C28: MarshalRecursive does not modify the DagMarshaler it is called on,
\* whose Loader and Path are on return what they were, and the value under
\* key k of a map marshaled with path P is marshaled with exactly P extended
\* by k, the keys of the entries before it not being part of it.
C28_MarshalerUnchanged == [][MarshalersKept /\ ChildPathExact]_vars

\* the value of the second entry of a map is about to be marshaled, the
\* first one done: the caller's marshaler holds its path, the copy that path
\* and the second key
C28_Witness ==
    /\ kpc = "run"
    /\ knode.kind = "Map"
    /\ Len(knode.kids) = 2
    /\ kstack # <<>>
    /\ Head(kstack).op = "visit"
    /\ Head(kstack).node = knode.kids[2].val
    /\ Len(kd) >= 3
    /\ kd[1] = [loader |-> kloader, path |-> <<StrHi>>]
    /\ kd[Head(kstack).d].path = <<StrHi, RenderString(knode.kids[2].key).str>>

(***************************************************************************)
(* C29.  Build of the Bytes builder needs a value.                         *)
(***************************************************************************)
\* an assignment of the history h was accepted and no Reset came after it
AssignedSinceReset(h) ==
    \E i \in 1..Len(h) :
        /\ h[i].op \in {"AssignBytes", "AssignNode"}
        /\ h[i].out = "ok"
        /\ \A j \in (i + 1)..Len(h) : h[j].op # "Reset"

\* the operation a step has just run
LastOp == bops'[Len(bops')]

\* C29: Build returns a node exactly when a value has been assigned since
\* the builder was made or last Reset, which is when the Maybe holds
\* Maybe_Value, and panics otherwise; the assignments of another kind
\* (AssignBool, AssignInt, AssignFloat, AssignString, AssignLink, BeginMap,
\* BeginList) return an error and leave the builder as it was.
C29_BuildNeedsValue ==
    [][/\ LastOp.op = "Build" =>
              /\ LastOp.out = "node" <=> AssignedSinceReset(bops)
              /\ LastOp.out = "node" <=> bm = "Value"
              /\ LastOp.out \in {"node", "panic"}
       /\ LastOp.op = "AssignOther" =>
              /\ LastOp.out = "error"
              /\ UNCHANGED <<bheap, bw, bm>>]_vars

\* Build has panicked on a builder that was Reset after a value, with only
\* failed assignments since
C29_Witness ==
    /\ Len(bops) = 4
    /\ bops[1] = [op |-> "AssignBytes", out |-> "ok"]
    /\ bops[2].op = "Reset"
    /\ bops[3] = [op |-> "AssignOther", out |-> "error"]
    /\ bops[4] = [op |-> "Build", out |-> "panic"]

(***************************************************************************)
(* C30.  The nodes Build has returned keep their content.                  *)
(***************************************************************************)
\* every node Build returned holds the bytes it held then
ReturnedNodesKept == \A k \in 1..Len(bout) : bheap[bout[k].addr] = bout[k].x

\* the builder's storage is not the storage of a node returned before the
\* last Reset
FreshStorage ==
    \A k \in 1..Len(bout) :
        (\E j \in 1..Len(bops) :
            /\ bops[j].op = "Reset"
            /\ Cardinality({ i \in 1..j : bops[i].out = "node" }) >= k)
        => bout[k].addr # bw

\* C30: once the builder has accepted a value, no operation changes the
\* content of a node Build has returned: an assignment before Reset panics
\* or returns an error, and Reset moves the builder to fresh storage.
C30_ReturnedNodeImmutable ==
    /\ ReturnedNodesKept
    /\ FreshStorage
    /\ bops # <<>> /\ bops[Len(bops)].op \notin {"Build", "Reset"}
       /\ AssignedSinceReset(SubSeq(bops, 1, Len(bops) - 1))
       => blast \in {"panic", "error"}

\* a node was returned, the builder Reset and given other bytes: the node
\* holds its bytes
C30_Witness ==
    /\ Len(bops) = 4
    /\ bops[2] = [op |-> "Build", out |-> "node"]
    /\ bops[3].op = "Reset"
    /\ bops[4] = [op |-> "AssignBytes", out |-> "ok"]
    /\ bout[1].x = <<1>>
    /\ bheap[bw] = <<2, 3>>
    /\ bheap[bout[1].addr] = <<1>>

====
